---- MODULE Spec2Model ----
(***************************************************************************)
(* Account-abstraction operation pipeline of defi_in_oneclick:             *)
(*   - CrossChainBridge / RealCrossChainBridge (bridge orchestrator),      *)
(*   - executeGaslessOperation with its paymaster, signer and bundler.     *)
(* Each async function is cut at its awaits: one action per stretch of     *)
(* code that runs without yielding to the event loop.                      *)
(***************************************************************************)
EXTENDS Integers, Sequences, FiniteSets, TLC

\* ------------------------------------------------------------------ bounds
\* Number of executeBridge calls that may be in flight (interleaved).
MaxCalls == 2

Calls == 1..MaxCalls

\* ------------------------------------------------------ bridge: input data
\* [fromNetwork, toNetwork, fromToken, toToken] arguments of executeBridge: a pair the
\* real bridge supports (its simulated burn is the OKB token burn) and one it does not
\* (simulated burn with a '0xbridge_' hash, as for sepolia ETH).
Pairs ==
  { [fromNetwork |-> "sepolia", toNetwork |-> "xlayer", fromToken |-> "OKB", toToken |-> "OKB"],
    [fromNetwork |-> "xlayer", toNetwork |-> "sepolia", fromToken |-> "OKB", toToken |-> "ETH"] }

\* Amounts and balances in tenths of a token ("0.5" is 5, "1.0" is 10).
Amounts == {10}
Balances == {5, 10}

NoHash == <<"undefined">>
NoId == <<"none", 0>>

RealId(c) == <<"real_bridge", c>>
SimId(c) == <<"sim_bridge", c>>
AllIds == {RealId(c) : c \in Calls} \cup {SimId(c) : c \in Calls}

Terminal == {"completed", "failed"}

VARIABLES
  transactions,      \* CrossChainBridge.transactions: id -> BridgeTransaction
  realTransactions,  \* RealCrossChainBridge.transactions: id -> RealBridgeTransaction
  pc,                \* position of each executeBridge call
  args,              \* arguments of each executeBridge call
  result,            \* what each call gave its caller: returned record or thrown error
  mintTimers,        \* pending setTimeout(.., 10000) callbacks of the simulated path
  monitorTimers,     \* pending setTimeout(checkStatus, ..): id -> delay in ms
  hist               \* per transaction id: what the steps of the code did (observation only)

bvars == <<transactions, realTransactions, pc, args, result, mintTimers, monitorTimers, hist>>

NoArgs == [pair |-> [fromNetwork |-> "", toNetwork |-> "", fromToken |-> "", toToken |-> ""],
           amount |-> 0]
NoResult == [kind |-> "none", id |-> NoId, status |-> "", txHash |-> NoHash, error |-> ""]

NoHist == [sourceHash |-> NoHash, dest |-> "none", threw |-> FALSE, lowBalance |-> FALSE]

\* const isRealBridge = ...
IsRealBridge(p) ==
  /\ p.fromNetwork = "sepolia"
  /\ p.toNetwork = "xlayer"
  /\ \/ (p.fromToken = "ETH" /\ p.toToken = "OKB")
     \/ (p.fromToken = "OKB" /\ p.toToken = "OKB")

\* The record literal both paths start from: status 'pending', no txHash.
NewBridgeTx(id, p, amount, eta) ==
  [id |-> id, fromNetwork |-> p.fromNetwork, toNetwork |-> p.toNetwork,
   fromToken |-> p.fromToken, toToken |-> p.toToken, amount |-> amount,
   status |-> "pending", txHash |-> NoHash, bridgeId |-> "undefined",
   estimatedTime |-> eta]

Remove(map, id) == [x \in (DOMAIN map) \ {id} |-> map[x]]

Put(map, id, rec) == [x \in (DOMAIN map) \cup {id} |-> IF x = id THEN rec ELSE map[x]]

\* getBridgeStatus(txId): the record, or null.
getBridgeStatus(txId) ==
  IF txId \in DOMAIN transactions THEN transactions[txId] ELSE [id |-> NoId, status |-> "null"]

BridgeInit ==
  /\ transactions = <<>>
  /\ realTransactions = <<>>
  /\ pc = [c \in Calls |-> "idle"]
  /\ args = [c \in Calls |-> NoArgs]
  /\ result = [c \in Calls |-> NoResult]
  /\ mintTimers = {}
  /\ monitorTimers = <<>>
  /\ hist = [id \in AllIds |-> NoHist]


\* ------------------------------------------------------- bridge: operations
\* Variant: the write goes to every record of the registry.
SetStatus_AllRecords(map, id, st) == [x \in DOMAIN map |-> [map[x] EXCEPT !.status = st]]

SetStatus(map, id, st) == [map EXCEPT ![id].status = st]

\* cross-chain.ts 187-204: txId = `sim_bridge_...`, record in 'pending', transactions.set.
CreateSimTx(c, p, amount) ==
  transactions' = Put(transactions, SimId(c), NewBridgeTx(SimId(c), p, amount, 120))

\* executeBridge up to its first await. A pair the real bridge supports enters
\* executeRealBridge (record created 'pending' in the real registry); any other
\* pair goes straight to the simulation.
ExecuteBridge(c, p, amount) ==
  /\ pc[c] = "idle"
  /\ args' = [args EXCEPT ![c] = [pair |-> p, amount |-> amount]]
  /\ IF IsRealBridge(p)
       THEN /\ realTransactions' =
                 Put(realTransactions, RealId(c), NewBridgeTx(RealId(c), p, amount, 300))
            /\ pc' = [pc EXCEPT ![c] = "real_quote"]
            /\ UNCHANGED transactions
       ELSE /\ CreateSimTx(c, p, amount)
            /\ pc' = [pc EXCEPT ![c] = "sim_wallet"]
            /\ UNCHANGED realTransactions
  /\ UNCHANGED <<result, mintTimers, monitorTimers, hist>>

\* getRealBridgeQuote never throws: a failed request yields the static fallback
\* (bridgeId 'fallback_...', estimatedTime 300). executeRealBridge 174-179.
RealQuote(c) ==
  /\ pc[c] = "real_quote"
  /\ \E q \in {"live", "fallback"} :
       realTransactions' =
         [realTransactions EXCEPT ![RealId(c)].bridgeId = IF q = "live" THEN "okx" ELSE "fallback_",
                                  ![RealId(c)].estimatedTime = 300]
  /\ pc' = [pc EXCEPT ![c] = "real_build"]
  /\ UNCHANGED <<transactions, args, result, mintTimers, monitorTimers, hist>>

\* executeRealBridge's catch (221-226) followed by executeBridge's catch (178-181)
\* and the simulation's record creation (187-204): no await in between.
RealFailed(c) ==
  /\ realTransactions' = SetStatus(realTransactions, RealId(c), "failed")
  /\ CreateSimTx(c, args[c].pair, args[c].amount)
  /\ hist' = [hist EXCEPT ![RealId(c)].threw = TRUE]
  /\ pc' = [pc EXCEPT ![c] = "sim_wallet"]
  /\ UNCHANGED <<args, result, mintTimers, monitorTimers>>

\* okxAPI.buildBridgeTx (189-201): returns the transaction data or throws.
RealBuild(c) ==
  /\ pc[c] = "real_build"
  /\ \E ok \in BOOLEAN :
       IF ok
         THEN /\ pc' = [pc EXCEPT ![c] = "real_submit"]
              /\ UNCHANGED <<transactions, realTransactions, args, result, mintTimers,
                             monitorTimers, hist>>
         ELSE RealFailed(c)

\* Outcomes of executeSmartAccountTransaction (232-268) as its code tells them apart:
\* no stored passkey, the awaited call rejecting, a result without success/txHash,
\* a result with both.
SubmitOutcomes == {"no_passkey", "rejected", "not_success", "ok"}

RealTxHash(c) == <<"0xop", c>>

\* executeRealBridge 204-219 on success, then executeBridge 158-176: the real record
\* goes to 'processing' with the hash, the monitor's first timer is set (30 s), and
\* executeBridge stores a NEW object copied field by field from the real record.
RealSubmitted(c) ==
  LET rec == [realTransactions[RealId(c)] EXCEPT !.status = "processing",
                                                 !.txHash = RealTxHash(c)]
      copy == [rec EXCEPT !.bridgeId = "undefined"]
  IN /\ realTransactions' = [realTransactions EXCEPT ![RealId(c)] = rec]
     /\ monitorTimers' = Put(monitorTimers, RealId(c), 30000)
     /\ transactions' = Put(transactions, RealId(c), copy)
     /\ hist' = [hist EXCEPT ![RealId(c)].sourceHash = RealTxHash(c)]
     /\ pc' = [pc EXCEPT ![c] = "returned"]
     /\ result' = [result EXCEPT ![c] = [kind |-> "returned", id |-> RealId(c),
                                         status |-> "processing", txHash |-> RealTxHash(c),
                                         error |-> ""]]
     /\ UNCHANGED <<args, mintTimers>>

RealSubmit(c) ==
  /\ pc[c] = "real_submit"
  /\ \E o \in SubmitOutcomes :
       IF o = "ok" THEN RealSubmitted(c) ELSE RealFailed(c)


\* ---------------------------------------------- bridge: the simulated path
\* executeBridge's outer catch (237-242): status 'failed', the error is re-thrown.
SimThrew(c, msg) ==
  /\ transactions' = SetStatus(transactions, SimId(c), "failed")
  /\ hist' = [hist EXCEPT ![SimId(c)].threw = TRUE]
  /\ pc' = [pc EXCEPT ![c] = "threw"]
  /\ result' = [result EXCEPT ![c] = [kind |-> "threw", id |-> SimId(c), status |-> "failed",
                                      txHash |-> NoHash, error |-> msg]]
  /\ UNCHANGED <<realTransactions, args, mintTimers, monitorTimers>>

\* keyManager.getOrCreateUserWallet, then executeBurnTransaction 275-280:
\* getUserWalletAccess returns null when no wallet can be read or decrypted.
SimWallet(c) ==
  /\ pc[c] = "sim_wallet"
  /\ \E access \in BOOLEAN :
       IF access
         THEN /\ pc' = [pc EXCEPT ![c] = "sim_balance"]
              /\ UNCHANGED <<transactions, realTransactions, args, result, mintTimers,
                             monitorTimers, hist>>
         ELSE SimThrew(c, "No wallet access for user")

\* Variant: the status update of 217-218 is left out.
BurnReturned_SkipProcessing(c, burnTxHash, low) ==
  /\ UNCHANGED transactions
  /\ mintTimers' = mintTimers \cup {SimId(c)}
  /\ hist' = [hist EXCEPT ![SimId(c)].sourceHash = burnTxHash,
                          ![SimId(c)].lowBalance = low]
  /\ pc' = [pc EXCEPT ![c] = "returned"]
  /\ result' = [result EXCEPT ![c] = [kind |-> "returned", id |-> SimId(c),
                                      status |-> "pending", txHash |-> NoHash,
                                      error |-> ""]]
  /\ UNCHANGED <<realTransactions, args, monitorTimers>>

\* executeBridge 213-235 once executeBurnTransaction has returned burnTxHash: the
\* hash is logged only, status becomes 'processing', the mint callback is scheduled,
\* and the record (the same object the registry holds) is returned.
BurnReturned(c, burnTxHash, low) ==
  /\ transactions' = SetStatus(transactions, SimId(c), "processing")
  /\ mintTimers' = mintTimers \cup {SimId(c)}
  /\ hist' = [hist EXCEPT ![SimId(c)].sourceHash = burnTxHash,
                          ![SimId(c)].lowBalance = low]
  /\ pc' = [pc EXCEPT ![c] = "returned"]
  /\ result' = [result EXCEPT ![c] = [kind |-> "returned", id |-> SimId(c),
                                      status |-> "processing", txHash |-> NoHash,
                                      error |-> ""]]
  /\ UNCHANGED <<realTransactions, args, monitorTimers>>

\* executeBurnTransaction 282-367 from the balance read on. Everything thrown inside
\* the try at 282, the 'Insufficient balance' error of 301-303 included, is caught at
\* 361 and answered with a '0xdemo...' hash.
SimBalance(c) ==
  /\ pc[c] = "sim_balance"
  /\ \E balance \in Balances, readFails \in BOOLEAN :
       IF readFails
         THEN BurnReturned(c, <<"0xdemo", c>>, FALSE)
         ELSE IF balance < args[c].amount
           THEN BurnReturned(c, <<"0xdemo", c>>, TRUE)
           ELSE IF args[c].pair.fromNetwork = "sepolia" /\ args[c].pair.fromToken = "OKB"
             THEN /\ pc' = [pc EXCEPT ![c] = "sim_burn"]
                  /\ UNCHANGED <<transactions, realTransactions, args, result, mintTimers,
                                 monitorTimers, hist>>
             ELSE BurnReturned(c, <<"0xbridge_", c>>, FALSE)

\* executeBurnTransaction 314-352: the OKB burn through the smart account; a missing
\* passkey or an unsuccessful burn is caught at 346 and answered with '0xfail_...'.
SimBurnToken(c) ==
  /\ pc[c] = "sim_burn"
  /\ \E o \in {"no_passkey", "burn_failed", "burn_ok"} :
       IF o = "burn_ok"
         THEN BurnReturned(c, <<"0xop", c>>, FALSE)
         ELSE BurnReturned(c, <<"0xfail_", c>>, FALSE)

\* executeMintTransaction 373-404: '0xmint...' from the try, '0xfallback...' from its
\* catch; only an exception raised inside that catch block leaves the function.
MintOutcomes == {"0xmint", "0xfallback", "throw"}

\* Variant: the callback stays scheduled after it ran (setInterval for setTimeout).
MintTimerFires_Repeating(id, o) ==
  /\ id \in mintTimers
  /\ UNCHANGED mintTimers
  /\ IF o = "throw"
       THEN /\ transactions' = SetStatus(transactions, id, "failed")
            /\ hist' = [hist EXCEPT ![id].dest = "failed", ![id].threw = TRUE]
       ELSE /\ transactions' = [transactions EXCEPT ![id].status = "completed",
                                                    ![id].txHash = <<o, id[2]>>]
            /\ hist' = [hist EXCEPT ![id].dest = "done"]
  /\ UNCHANGED <<realTransactions, pc, args, result, monitorTimers>>

\* The setTimeout callback of executeBridge (221-235).
MintTimerFires(id, o) ==
  /\ id \in mintTimers
  /\ mintTimers' = mintTimers \ {id}
  /\ IF o = "throw"
       THEN /\ transactions' = SetStatus(transactions, id, "failed")
            /\ hist' = [hist EXCEPT ![id].dest = "failed", ![id].threw = TRUE]
       ELSE /\ transactions' = [transactions EXCEPT ![id].status = "completed",
                                                    ![id].txHash = <<o, id[2]>>]
            /\ hist' = [hist EXCEPT ![id].dest = "done"]
  /\ UNCHANGED <<realTransactions, pc, args, result, monitorTimers>>

MintTimer == \E id \in AllIds, o \in MintOutcomes : MintTimerFires(id, o)


\* ------------------------------------------------- bridge: the status monitor
\* What okxAPI.getBridgeStatus gives one poll: a status, or an exception.
StatusAnswers == {"completed", "failed", "pending", "error"}

\* Variant: a 'completed' answer is recorded and the next check scheduled all the same.
CheckStatus_KeepsPolling(id, s) ==
  /\ id \in DOMAIN monitorTimers
  /\ IF s = "error"
       THEN /\ monitorTimers' = Put(Remove(monitorTimers, id), id, 60000)
            /\ UNCHANGED <<realTransactions, hist>>
       ELSE IF s = "completed"
         THEN /\ realTransactions' = SetStatus(realTransactions, id, "completed")
              /\ monitorTimers' = Put(Remove(monitorTimers, id), id, 30000)
              /\ hist' = [hist EXCEPT ![id].dest = "done"]
         ELSE IF s = "failed"
           THEN /\ realTransactions' = SetStatus(realTransactions, id, "failed")
                /\ monitorTimers' = Remove(monitorTimers, id)
                /\ hist' = [hist EXCEPT ![id].dest = "failed"]
           ELSE /\ monitorTimers' = Put(Remove(monitorTimers, id), id, 30000)
                /\ UNCHANGED <<realTransactions, hist>>
  /\ UNCHANGED <<transactions, pc, args, result, mintTimers>>

\* checkStatus of monitorBridgeTransaction (280-305), run by a timer.
CheckStatus(id, s) ==
  /\ id \in DOMAIN monitorTimers
  /\ IF s = "error"
       THEN /\ monitorTimers' = Put(Remove(monitorTimers, id), id, 60000)
            /\ UNCHANGED <<realTransactions, hist>>
       ELSE IF s = "completed"
         THEN /\ realTransactions' = SetStatus(realTransactions, id, "completed")
              /\ monitorTimers' = Remove(monitorTimers, id)
              /\ hist' = [hist EXCEPT ![id].dest = "done"]
         ELSE IF s = "failed"
           THEN /\ realTransactions' = SetStatus(realTransactions, id, "failed")
                /\ monitorTimers' = Remove(monitorTimers, id)
                /\ hist' = [hist EXCEPT ![id].dest = "failed"]
           ELSE /\ monitorTimers' = Put(Remove(monitorTimers, id), id, 30000)
                /\ UNCHANGED <<realTransactions, hist>>
  /\ UNCHANGED <<transactions, pc, args, result, mintTimers>>

MonitorPoll == \E id \in AllIds, s \in StatusAnswers : CheckStatus(id, s)

\* ================================================================ gasless
\* executeGaslessOperation (gasless/execute.ts) with PaymasterClient, the two passkey
\* ceremonies and BundlerClient.sendUserOperation.

\* Number of executeGaslessOperation calls in flight.
MaxOps == 1

Ops == 1..MaxOps

VARIABLES
  gpc,          \* position of each executeGaslessOperation call
  userOp,       \* completeUserOp of the call
  userOpHash,   \* the hash computed at step 4
  signRequest,  \* the hash handed to signWithPasskey (the signer's challenge)
  sentOp,       \* the operation given to eth_sendUserOperation
  glog,         \* the requests the call issued to its collaborators, in order
  gcause,       \* which collaborator failed, and how (observation only)
  gresult       \* what the call gave its caller: opHash or the thrown Error's message

gvars == <<gpc, userOp, userOpHash, signRequest, sentOp, glog, gcause, gresult>>

\* An Error message is a sequence of words; punctuation marks are words of their own.
\* String.prototype.includes: the phrase occurs as a contiguous run (case-sensitive).
Includes(msg, phrase) ==
  \E i \in 0..(Len(msg) - Len(phrase)) :
    \A j \in 1..Len(phrase) : msg[i + j] = phrase[j]

\* --- messages thrown by PaymasterClient (paymaster.ts 45, 94-104)
PaymasterRpcError(detail) == <<"Paymaster", "RPC", "Error", ":">> \o detail
PaymasterFundsError ==
  <<"Paymaster", "has", "insufficient", "funds", ".", "Please", "contact", "support", ".">>
PaymasterPolicyError ==
  <<"Invalid", "sponsorship", "policy", ".", "Please", "check", "configuration", ".">>
PaymasterIneligibleError ==
  <<"This", "operation", "is", "not", "eligible", "for", "sponsorship", ".">>
SponsorshipFailed(msg) == <<"Sponsorship", "failed", ":">> \o msg

\* catch block of sponsorUserOperation (paymaster.ts 90-105)
SponsorCatch(msg) ==
  IF Includes(msg, <<"insufficient", "deposit">>) THEN PaymasterFundsError
  ELSE IF Includes(msg, <<"policy", "not", "found">>) THEN PaymasterPolicyError
  ELSE IF Includes(msg, <<"user", "operation", "not", "eligible">>) THEN PaymasterIneligibleError
  ELSE SponsorshipFailed(msg)

\* --- messages thrown by the two passkey ceremonies
\* passkey-sign.ts 54-66 (signMessage), by error.name
ConfirmCatch(name) ==
  IF name = "NotAllowedError"
    THEN <<"Transaction", "signing", "was", "cancelled", ".", "Please", "approve", "the",
           "transaction", "with", "your", "security", "key", ".">>
  ELSE IF name = "InvalidStateError"
    THEN <<"Security", "key", "not", "found", ".", "Please", "ensure", "your", "device",
           "is", "connected", ".">>
  ELSE <<"Failed", "to", "sign", "transaction", ".", "Please", "try", "again", ".">>

\* gasless/signer.ts 73-87 (signWithPasskey), by error.name, else by message
SignerCatch(name, msg) ==
  IF name = "NotAllowedError"
    THEN <<"User", "cancelled", "the", "passkey", "authentication">>
  ELSE IF name = "InvalidStateError"
    THEN <<"No", "passkey", "found", "for", "this", "account">>
  ELSE IF name = "SecurityError"
    THEN <<"Security", "error", ":", "Please", "ensure", "you", "are", "on", "a", "secure",
           "origin", "(", "HTTPS", ")">>
  ELSE <<"Failed", "to", "sign", "with", "passkey", ":">> \o msg

CancelledByUser == <<"Transaction", "cancelled", "by", "user">>

\* Variant: the inner catch rethrows what it caught.
SigningCatch_Rethrow(msg) == msg

\* inner catch of executeGaslessOperation (69-74)
SigningCatch(msg) ==
  IF Includes(msg, <<"cancelled">>) THEN CancelledByUser ELSE msg

\* --- messages thrown by BundlerClient (bundler.ts 67, 136-148)
BundlerRpcError(detail) == <<"RPC", "Error", ":">> \o detail
SendCatch(msg) ==
  IF Includes(msg, <<"already", "in", "mempool">>)
    THEN <<"Transaction", "already", "pending", ".", "Please", "wait", "for", "it", "to",
           "complete", ".">>
  ELSE IF Includes(msg, <<"insufficient", "funds">>)
    THEN <<"Insufficient", "funds", "for", "gas", "fees", ".", "Please", "ensure",
           "paymaster", "is", "properly", "configured", ".">>
  ELSE <<"Failed", "to", "send", "transaction", ":">> \o msg

\* --- outer catch of executeGaslessOperation (82-97)
AccountNeedsFunding ==
  <<"Your", "smart", "account", "needs", "funding", ".", "Please", "add", "some", "ETH",
    "for", "deployment", ".">>
AlreadyDeployed ==
  <<"Smart", "account", "already", "deployed", ".", "Retrying", "without", "init", "code",
    "...">>
GasSponsorshipFailed ==
  <<"Gas", "sponsorship", "failed", ".", "The", "transaction", "will", "require", "gas",
    "fees", ".">>

ExecuteCatch(msg) ==
  IF Includes(msg, <<"insufficient", "funds">>) THEN AccountNeedsFunding
  ELSE IF Includes(msg, <<"already", "deployed">>) THEN AlreadyDeployed
  ELSE IF Includes(msg, <<"paymaster">>) THEN GasSponsorshipFailed
  ELSE msg

\* --- the user operation
ENTRYPOINT_ADDRESS == "0x5FF137D4b0FDCD49DcA30c7CF57E578a026d2789"
XLayerId == "xlayer.id"

Nonces == {0, 1}
InitCodes == {"undefined", "0x", "0xinit"}

keccak256(x) == <<"keccak256", x>>

\* Variant: the priority fee is left out of the packed struct.
getUserOpHash_WithoutPriorityFee(op, entryPoint, chainId) ==
  LET packed == <<op.sender, op.nonce, keccak256(op.initCode), keccak256(op.callData),
                  op.callGasLimit, op.verificationGasLimit, op.preVerificationGas,
                  op.maxFeePerGas, keccak256(op.paymasterAndData)>>
  IN keccak256(<<keccak256(packed), entryPoint, chainId>>)

\* Variant: the signature is packed with the other fields.
getUserOpHash_WithSignature(op, entryPoint, chainId) ==
  LET packed == <<op.sender, op.nonce, keccak256(op.initCode), keccak256(op.callData),
                  op.callGasLimit, op.verificationGasLimit, op.preVerificationGas,
                  op.maxFeePerGas, op.maxPriorityFeePerGas, keccak256(op.paymasterAndData),
                  keccak256(op.signature)>>
  IN keccak256(<<keccak256(packed), entryPoint, chainId>>)

\* getUserOpHash (execute.ts 100-129): the struct hash over sender, nonce, the hashes
\* of initCode, callData and paymasterAndData and the five gas fields; then the hash
\* of that with the entry point and the chain id. The signature is not read.
getUserOpHash(op, entryPoint, chainId) ==
  LET packed == <<op.sender, op.nonce, keccak256(op.initCode), keccak256(op.callData),
                  op.callGasLimit, op.verificationGasLimit, op.preVerificationGas,
                  op.maxFeePerGas, op.maxPriorityFeePerGas, keccak256(op.paymasterAndData)>>
  IN keccak256(<<keccak256(packed), entryPoint, chainId>>)

NoOp == [sender |-> "", nonce |-> 0, initCode |-> "undefined", callData |-> "",
         callGasLimit |-> 0, verificationGasLimit |-> 0, preVerificationGas |-> 0,
         maxFeePerGas |-> 0, maxPriorityFeePerGas |-> 0, paymasterAndData |-> "undefined",
         signature |-> <<"undefined">>]
NoGResult == [kind |-> "none", opHash |-> NoHash, message |-> <<>>]

\* Gas estimates of BundlerClient.estimateUserOperationGas (bundler.ts 73-110):
\* the bundler's answer, or the static fallback computed from the partial operation
\* ('0x' is a truthy string, so it too adds the 32000). Fee fields are counted in
\* units of 10^8 wei: 0x5f5e100 is 1, parseEther('0.0000001') is 1000.
BundlerEstimate ==
  [preVerificationGas |-> 50000, verificationGasLimit |-> 100000, callGasLimit |-> 200000,
   maxFeePerGas |-> 30, maxPriorityFeePerGas |-> 1]
StaticEstimate(partial, baseFee) ==
  [preVerificationGas |-> 21000 + (IF partial.initCode # "undefined" THEN 32000 ELSE 0),
   verificationGasLimit |->
     IF partial.initCode # "undefined" /\ partial.initCode # "0x" THEN 600000 ELSE 150000,
   callGasLimit |-> 300000,
   maxFeePerGas |-> (baseFee * 120) \div 100,
   maxPriorityFeePerGas |-> 1000]

\* execute.ts 26-38: the complete operation built from the estimate.
CompleteUserOp(partial, gasEstimate) ==
  [sender |-> partial.sender, nonce |-> partial.nonce,
   initCode |-> IF partial.initCode = "undefined" THEN "0x" ELSE partial.initCode,
   callData |-> partial.callData,
   callGasLimit |-> gasEstimate.callGasLimit,
   verificationGasLimit |-> gasEstimate.verificationGasLimit,
   preVerificationGas |-> gasEstimate.preVerificationGas,
   maxFeePerGas |-> gasEstimate.maxFeePerGas,
   maxPriorityFeePerGas |-> gasEstimate.maxPriorityFeePerGas,
   paymasterAndData |-> "0x", signature |-> <<"0x">>]

\* What pm_sponsorUserOperation answers: paymasterAndData and gas fields, a gas field
\* of 0 standing for one the answer leaves out.
SponsorAnswers ==
  { [paymasterAndData |-> "0xpm", preVerificationGas |-> 60000,
     verificationGasLimit |-> 110000, callGasLimit |-> 210000],
    [paymasterAndData |-> "0xpm", preVerificationGas |-> 0,
     verificationGasLimit |-> 0, callGasLimit |-> 0] }

Or0(a, b) == IF a # 0 THEN a ELSE b

\* paymaster.ts 79-83: BigInt(answer.field || userOp.field || 0)
SponsorshipResult(op, answer) ==
  [paymasterAndData |-> answer.paymasterAndData,
   preVerificationGas |-> Or0(answer.preVerificationGas, op.preVerificationGas),
   verificationGasLimit |-> Or0(answer.verificationGasLimit, op.verificationGasLimit),
   callGasLimit |-> Or0(answer.callGasLimit, op.callGasLimit)]

\* execute.ts 48-51: the overwrite with the sponsored values.
ApplySponsorship(op, res) ==
  [op EXCEPT !.paymasterAndData = res.paymasterAndData,
             !.preVerificationGas = res.preVerificationGas,
             !.verificationGasLimit = res.verificationGasLimit,
             !.callGasLimit = res.callGasLimit]

GaslessInit ==
  /\ gpc = [g \in Ops |-> "idle"]
  /\ userOp = [g \in Ops |-> NoOp]
  /\ userOpHash = [g \in Ops |-> NoHash]
  /\ signRequest = [g \in Ops |-> NoHash]
  /\ sentOp = [g \in Ops |-> NoOp]
  /\ glog = [g \in Ops |-> <<>>]
  /\ gcause = [g \in Ops |-> "none"]
  /\ gresult = [g \in Ops |-> NoGResult]

\* --- the steps of executeGaslessOperation
\* The function's outer catch (82-97): the caller gets ExecuteCatch of the message.
GThrow(g, msg, cause) ==
  /\ gpc' = [gpc EXCEPT ![g] = "threw"]
  /\ gresult' = [gresult EXCEPT ![g] = [kind |-> "threw", opHash |-> NoHash,
                                        message |-> ExecuteCatch(msg)]]
  /\ gcause' = [gcause EXCEPT ![g] = cause]

\* Call with options.userOp = {sender, nonce, initCode, callData}; step 1 issues the
\* estimation request (23).
GStart(g, nonce, initCode) ==
  /\ gpc[g] = "idle"
  /\ userOp' = [userOp EXCEPT ![g] = [NoOp EXCEPT !.sender = "0xsender", !.nonce = nonce,
                                                  !.initCode = initCode,
                                                  !.callData = "0xcalldata"]]
  /\ glog' = [glog EXCEPT ![g] = <<"estimate">>]
  /\ gpc' = [gpc EXCEPT ![g] = "estimating"]
  /\ UNCHANGED <<userOpHash, signRequest, sentOp, gcause, gresult>>

BaseFees == {25}
ChainReadError == <<"HTTP", "request", "failed", ".">>

\* Steps 1-3 (23-45): the estimate comes back (from the bundler, or the static one when
\* the bundler request failed and the gas-price read worked; if that read fails too
\* the error leaves estimateUserOperationGas), the operation is built and the
\* sponsorship request is issued.
GEstimate(g) ==
  /\ gpc[g] = "estimating"
  /\ \E o \in {"bundler", "static", "gas_price_fails"}, baseFee \in BaseFees :
       IF o = "gas_price_fails"
         THEN /\ GThrow(g, ChainReadError, "estimate")
              /\ UNCHANGED <<userOp, glog>>
         ELSE /\ userOp' = [userOp EXCEPT ![g] =
                   CompleteUserOp(userOp[g], IF o = "bundler" THEN BundlerEstimate
                                             ELSE StaticEstimate(userOp[g], baseFee))]
              /\ glog' = [glog EXCEPT ![g] = Append(@, "sponsor")]
              /\ gpc' = [gpc EXCEPT ![g] = "sponsoring"]
              /\ UNCHANGED <<gcause, gresult>>
  /\ UNCHANGED <<userOpHash, signRequest, sentOp>>

\* Error details of the paymaster's JSON-RPC answer, with the failure each stands for.
PaymasterRejections ==
  { [cause |-> "paymaster_funds", detail |-> <<"insufficient", "deposit">>],
    [cause |-> "paymaster_policy", detail |-> <<"policy", "not", "found">>],
    [cause |-> "paymaster_ineligible", detail |-> <<"user", "operation", "not", "eligible">>],
    [cause |-> "paymaster_unknown", detail |-> <<"internal", "error">>] }

\* Variant: the hash is taken before the sponsored values are written.
HashForSigning_BeforeSponsorship(op, res) ==
  getUserOpHash(op, ENTRYPOINT_ADDRESS, XLayerId)

\* The hash step 4 computes: over the operation after the sponsorship overwrite.
HashForSigning(op, res) ==
  getUserOpHash(ApplySponsorship(op, res), ENTRYPOINT_ADDRESS, XLayerId)

\* The TypeError of reading xlayer.id (54) in a build where the import of xlayer
\* (7) resolves to undefined: smart-account/factory.ts exports no xlayer.
XLayerUndefined ==
  <<"Cannot", "read", "properties", "of", "undefined", "(", "reading", "'id'", ")">>

\* Steps 3-5 (42-63): the paymaster answers. A rejection is rethrown by
\* sponsorUserOperation's catch. Otherwise the sponsored values overwrite the
\* operation, the hash is computed and the first ceremony (signMessage) is requested.
GSponsor(g) ==
  /\ gpc[g] = "sponsoring"
  /\ \/ \E r \in PaymasterRejections :
          /\ GThrow(g, SponsorCatch(PaymasterRpcError(r.detail)), r.cause)
          /\ UNCHANGED <<userOp, userOpHash, glog>>
     \/ \E a \in SponsorAnswers :
          LET res == SponsorshipResult(userOp[g], a)
          IN /\ userOp' = [userOp EXCEPT ![g] = ApplySponsorship(userOp[g], res)]
             /\ \/ /\ userOpHash' = [userOpHash EXCEPT ![g] = HashForSigning(userOp[g], res)]
                   /\ glog' = [glog EXCEPT ![g] = @ \o <<"hash", "confirm">>]
                   /\ gpc' = [gpc EXCEPT ![g] = "confirming"]
                   /\ UNCHANGED <<gcause, gresult>>
                \/ /\ GThrow(g, XLayerUndefined, "hash")
                   /\ UNCHANGED <<userOpHash, glog>>
  /\ UNCHANGED <<signRequest, sentOp>>

NoPasskeyFound ==
  <<"No", "passkey", "found", ".", "Please", "set", "up", "your", "security", "key",
    "first", ".">>

CeremonyErrors == {"NotAllowedError", "InvalidStateError", "SecurityError", "UnknownError"}

CauseOf(name) == IF name = "NotAllowedError" THEN "declined" ELSE "signing"

\* Step 5, first ceremony (63): signMessage resolves, or throws; the inner catch
\* (69-74) rewrites a message that includes 'cancelled'. On success the operation
\* hash is handed to signWithPasskey (67).
GConfirm(g) ==
  /\ gpc[g] = "confirming"
  /\ \/ /\ GThrow(g, SigningCatch(NoPasskeyFound), "signing")
        /\ UNCHANGED <<signRequest, glog>>
     \/ \E name \in CeremonyErrors :
          /\ GThrow(g, SigningCatch(ConfirmCatch(name)), CauseOf(name))
          /\ UNCHANGED <<signRequest, glog>>
     \/ /\ signRequest' = [signRequest EXCEPT ![g] = userOpHash[g]]
        /\ glog' = [glog EXCEPT ![g] = Append(@, "sign")]
        /\ gpc' = [gpc EXCEPT ![g] = "signing"]
        /\ UNCHANGED <<gcause, gresult>>
  /\ UNCHANGED <<userOp, userOpHash, sentOp>>

UnknownSignerDetail == <<"Unknown", "error">>

\* Steps 5-6 (67-78): signWithPasskey resolves with the signature, which is stored
\* and the operation is sent; or it throws.
GSign(g) ==
  /\ gpc[g] = "signing"
  /\ \/ \E name \in CeremonyErrors :
          /\ GThrow(g, SigningCatch(SignerCatch(name, UnknownSignerDetail)), CauseOf(name))
          /\ UNCHANGED <<userOp, sentOp, glog>>
     \/ LET signed == [userOp[g] EXCEPT !.signature = <<"passkey", signRequest[g]>>]
        IN /\ userOp' = [userOp EXCEPT ![g] = signed]
           /\ sentOp' = [sentOp EXCEPT ![g] = signed]
           /\ glog' = [glog EXCEPT ![g] = Append(@, "send")]
           /\ gpc' = [gpc EXCEPT ![g] = "sending"]
           /\ UNCHANGED <<gcause, gresult>>
  /\ UNCHANGED <<userOpHash, signRequest>>

BundlerRejections ==
  { <<"already", "in", "mempool">>, <<"insufficient", "funds">>,
    <<"AA24", "signature", "error">> }

\* Variant: a rejected operation is sent again.
GSend_Resend(g) ==
  /\ gpc[g] = "sending"
  /\ \/ /\ Len(glog[g]) < 8
        /\ glog' = [glog EXCEPT ![g] = Append(@, "send")]
        /\ UNCHANGED <<gpc, gresult, gcause>>
     \/ /\ gpc' = [gpc EXCEPT ![g] = "returned"]
        /\ gresult' = [gresult EXCEPT ![g] = [kind |-> "returned",
                                              opHash |-> <<"0xuserOpHash", g>>,
                                              message |-> <<>>]]
        /\ UNCHANGED <<gcause, glog>>
  /\ UNCHANGED <<userOp, userOpHash, signRequest, sentOp>>

\* Step 6 (78-81): the bundler accepts (opHash returned to the caller) or rejects
\* (sendUserOperation's catch rethrows, then the outer catch).
GSend(g) ==
  /\ gpc[g] = "sending"
  /\ \/ \E d \in BundlerRejections :
          GThrow(g, SendCatch(BundlerRpcError(d)), "bundler")
     \/ /\ gpc' = [gpc EXCEPT ![g] = "returned"]
        /\ gresult' = [gresult EXCEPT ![g] = [kind |-> "returned",
                                              opHash |-> <<"0xuserOpHash", g>>,
                                              message |-> <<>>]]
        /\ UNCHANGED gcause
  /\ UNCHANGED <<userOp, userOpHash, signRequest, sentOp, glog>>

\* ================================================================ receipts
\* BundlerClient.waitForUserOperationReceipt (gasless/bundler.ts) and its two callers,
\* waitForTransaction (gasless/execute.ts) and useTransactionHistory.trackUserOperation.
\* Times are in milliseconds, counted from the wait's startTime.

PollInterval == 2000
WaitForTransactionTimeout == 60000
TrackTimeout == 120000

\* Who waits, and with which timeout: a direct call with a timeout of its own, or one
\* of the two callers with the timeout it passes.
DirectTimeouts == {4000, 5000}
Waiters ==
  {[caller |-> "direct", timeout |-> t] : t \in DirectTimeouts}
    \cup {[caller |-> "waitForTransaction", timeout |-> WaitForTransactionTimeout],
          [caller |-> "trackUserOperation", timeout |-> TrackTimeout]}

\* How long one eth_getUserOperationReceipt request takes to answer.
Latencies == {0, 1000, 2000}

\* What one request answers: nothing yet, an RPC error (getUserOperationReceipt's
\* catch turns it into null), or a receipt of a succeeded or reverted execution.
ReceiptAnswers == {"null", "error", "success", "reverted"}

VARIABLES
  wpc,       \* position of the wait: idle, polling, done
  waiter,    \* who waits and with which timeout
  wnow,      \* Date.now() - startTime
  wprev,     \* time of the request before the latest one (-1: none)
  wlast,     \* time of the latest request (-1: none)
  wreceipt,  \* the receipt the bundler gave, if any
  wresult,   \* what the caller of the wait (or of its wrapper) got
  tracked    \* the Transaction trackUserOperation keeps in the history

rvars == <<wpc, waiter, wnow, wprev, wlast, wreceipt, wresult, tracked>>

NoReceipt == [got |-> FALSE, success |-> FALSE, transactionHash |-> "undefined"]
NoWResult == [kind |-> "none", message |-> <<>>]
NoTracked == [status |-> "none", hash |-> "undefined"]

ReceiptTimeoutError ==
  <<"Transaction", "timeout", ":", "UserOperation", "receipt", "not", "found">>
FailedOnChain == <<"Transaction", "failed", "on-chain">>
TakingLonger ==
  <<"Transaction", "is", "taking", "longer", "than", "expected", ".", "Please", "check",
    "the", "explorer", ".">>

\* catch of waitForTransaction (execute.ts 144-152)
WaitCatch(msg) == IF Includes(msg, <<"timeout">>) THEN TakingLonger ELSE msg

\* Variant: every receipt counts as a success.
TrackStatus_AlwaysSuccess(receipt) == "success"

\* trackUserOperation (part_001 111): status from the receipt's success flag.
TrackStatus(receipt) == IF receipt.success THEN "success" ELSE "failed"

ReceiptInit ==
  /\ wpc = "idle"
  /\ waiter = [caller |-> "none", timeout |-> 0]
  /\ wnow = 0
  /\ wprev = -1
  /\ wlast = -1
  /\ wreceipt = NoReceipt
  /\ wresult = NoWResult
  /\ tracked = NoTracked

\* The wait starts: startTime = Date.now(). trackUserOperation first adds the
\* pending Transaction under the operation hash (part_001 90-102).
WStart(w) ==
  /\ wpc = "idle"
  /\ waiter' = w
  /\ wpc' = "polling"
  /\ tracked' = IF w.caller = "trackUserOperation"
                  THEN [status |-> "pending", hash |-> "0xopHash"]
                  ELSE tracked
  /\ UNCHANGED <<wnow, wprev, wlast, wreceipt, wresult>>

\* waitForUserOperationReceipt returned a receipt to its caller.
WReturned(receipt) ==
  /\ wpc' = "done"
  /\ wreceipt' = receipt
  /\ IF waiter.caller = "trackUserOperation"
       THEN /\ tracked' = [status |-> TrackStatus(receipt), hash |-> receipt.transactionHash]
            /\ wresult' = [kind |-> "returned", message |-> <<>>]
       ELSE /\ UNCHANGED tracked
            /\ wresult' =
                 IF waiter.caller = "waitForTransaction" /\ ~receipt.success
                   THEN [kind |-> "threw", message |-> WaitCatch(FailedOnChain)]
                   ELSE [kind |-> "returned", message |-> <<>>]

\* One turn of the loop (190-201): the condition holds, the request is made and
\* answered after some latency; a receipt is returned, otherwise 2 seconds of sleep.
WPoll ==
  /\ wpc = "polling"
  /\ wnow < waiter.timeout
  /\ wprev' = wlast
  /\ wlast' = wnow
  /\ \E latency \in Latencies, a \in ReceiptAnswers :
       IF a \in {"success", "reverted"}
         THEN /\ wnow' = wnow + latency
              /\ WReturned([got |-> TRUE, success |-> (a = "success"),
                            transactionHash |-> "0xtx"])
         ELSE /\ wnow' = wnow + latency + PollInterval
              /\ UNCHANGED <<wpc, wreceipt, wresult, tracked>>
  /\ UNCHANGED waiter

\* The loop condition fails (190, 203): the timeout Error is thrown.
\* waitForTransaction's catch rewrites it; trackUserOperation's catch marks the
\* Transaction failed (part_001 117-120).
WExpire ==
  /\ wpc = "polling"
  /\ ~(wnow < waiter.timeout)
  /\ wpc' = "done"
  /\ IF waiter.caller = "trackUserOperation"
       THEN /\ tracked' = [tracked EXCEPT !.status = "failed"]
            /\ wresult' = [kind |-> "returned", message |-> <<>>]
       ELSE /\ UNCHANGED tracked
            /\ wresult' = [kind |-> "threw",
                           message |-> IF waiter.caller = "waitForTransaction"
                                         THEN WaitCatch(ReceiptTimeoutError)
                                         ELSE ReceiptTimeoutError]
  /\ UNCHANGED <<waiter, wnow, wprev, wlast, wreceipt>>

\* ================================================================ hashing
\* getUserOpHash of gasless/execute.ts, and getUserOpHash of the Sepolia smart-account
\* module (EntryPoint read with a local fallback), applied to two operations.

HashFields ==
  {"none", "nonce", "initCode", "callData", "callGasLimit", "verificationGasLimit",
   "preVerificationGas", "maxFeePerGas", "maxPriorityFeePerGas", "paymasterAndData",
   "signature"}

\* The first operation of a pair.
HashOps ==
  {[sender |-> "0xsender", nonce |-> n, initCode |-> "0x", callData |-> cd,
    callGasLimit |-> 200000, verificationGasLimit |-> 150000, preVerificationGas |-> 50000,
    maxFeePerGas |-> 50, maxPriorityFeePerGas |-> 25, paymasterAndData |-> pm,
    signature |-> <<"0x">>] : n \in Nonces, cd \in {"0x", "0xcalldata"}, pm \in {"0x", "0xpm"}}

\* The operation with one field changed (a number by one, bytes by one more byte).
ChangeField(op, f) ==
  CASE f = "none" -> op
    [] f = "nonce" -> [op EXCEPT !.nonce = @ + 1]
    [] f = "initCode" -> [op EXCEPT !.initCode = "0xinit"]
    [] f = "callData" -> [op EXCEPT !.callData = IF @ = "0x" THEN "0x01" ELSE "0xcalldata01"]
    [] f = "callGasLimit" -> [op EXCEPT !.callGasLimit = @ + 1]
    [] f = "verificationGasLimit" -> [op EXCEPT !.verificationGasLimit = @ + 1]
    [] f = "preVerificationGas" -> [op EXCEPT !.preVerificationGas = @ + 1]
    [] f = "maxFeePerGas" -> [op EXCEPT !.maxFeePerGas = @ + 1]
    [] f = "maxPriorityFeePerGas" -> [op EXCEPT !.maxPriorityFeePerGas = @ + 1]
    [] f = "paymasterAndData" -> [op EXCEPT !.paymasterAndData = "0xpm01"]
    [] f = "signature" -> [op EXCEPT !.signature = <<"passkey", "0xsig">>]

EntryPoints == {ENTRYPOINT_ADDRESS, "0x0000000071727De22E5E9d8BAf0edAc6f37da032"}
ChainIds == {XLayerId, "sepoliaTestnet.id"}
HashContexts == {[entryPoint |-> e, chainId |-> c] : e \in EntryPoints, c \in ChainIds}

\* The struct the two modules pack (execute.ts 106-121, part_007 380-394).
PackedUserOp(op) ==
  <<op.sender, op.nonce, keccak256(op.initCode), keccak256(op.callData),
    op.callGasLimit, op.verificationGasLimit, op.preVerificationGas,
    op.maxFeePerGas, op.maxPriorityFeePerGas, keccak256(op.paymasterAndData)>>

\* EntryPoint.getUserOpHash as read from the contract at entryPoint on chain chainId
\* (part_007 368-375): the struct hash with the contract's address and chain id.
EntryPointRead(op, entryPoint, chainId) ==
  keccak256(<<keccak256(PackedUserOp(op)), entryPoint, chainId>>)

\* The catch of part_007's getUserOpHash (377-396): the hash of the struct alone.
LocalUserOpHash(op) == keccak256(PackedUserOp(op))

VARIABLES
  hpc,    \* idle, input (operations chosen), then the code path that hashed them
  hop,    \* the two operations
  hctx,   \* the entry point and chain of each
  hfield, \* the field in which the second operation differs from the first
  hhash   \* the two hashes

hvars == <<hpc, hop, hctx, hfield, hhash>>

NoContext == [entryPoint |-> "", chainId |-> ""]

HashInit ==
  /\ hpc = "idle"
  /\ hfield = "none"
  /\ hop = <<NoOp, NoOp>>
  /\ hctx = <<NoContext, NoContext>>
  /\ hhash = <<NoHash, NoHash>>

\* Two operations are built, the second differing from the first in field f, each
\* for an entry point and a chain.
HashInput(op, f, ctx1, ctx2) ==
  /\ hpc = "idle"
  /\ hpc' = "input"
  /\ hfield' = f
  /\ hop' = <<op, ChangeField(op, f)>>
  /\ hctx' = <<ctx1, ctx2>>
  /\ UNCHANGED hhash

\* execute.ts getUserOpHash, once for each operation.
HashExecute ==
  /\ hpc = "input"
  /\ hpc' = "execute"
  /\ hhash' = [i \in {1, 2} |-> getUserOpHash(hop[i], hctx[i].entryPoint, hctx[i].chainId)]
  /\ UNCHANGED <<hop, hctx, hfield>>

\* part_007 getUserOpHash when the EntryPoint read answers.
HashEntryPointRead ==
  /\ hpc = "input"
  /\ hpc' = "entryPointRead"
  /\ hhash' = [i \in {1, 2} |-> EntryPointRead(hop[i], hctx[i].entryPoint, hctx[i].chainId)]
  /\ UNCHANGED <<hop, hctx, hfield>>

\* part_007 getUserOpHash when the EntryPoint read fails.
HashLocalFallback ==
  /\ hpc = "input"
  /\ hpc' = "localFallback"
  /\ hhash' = [i \in {1, 2} |-> LocalUserOpHash(hop[i])]
  /\ UNCHANGED <<hop, hctx, hfield>>

\* ================================================================ addresses
\* Smart-account address derivation: createSmartAccount with
\* getOrCreateSmartAccountAddress (address-manager.ts), calculateSalt and
\* calculateSmartAccountAddress of factory.ts, and their multi-chain versions.

FIXED_ADDRESS == "0x9f0815a0b5ffb7e7178858cd62156487ba991414"
FACTORY_ADDRESS == "0xB8D779eeEF173c6dBC3a28f0Dec73e48cBE6411C"

Emails == {"a@example.com", "b@example.com"}
\* Public keys as the callers hold them: hex strings, or the base64 text of key A.
WellFormedKeys == {"0xkeyA", "0xkeyB", "base64(keyA)"}
\* Malformed keys: empty, a hex string of the wrong length, text that atob rejects.
MalformedKeys == {"", "0xshort", "%%%"}
PublicKeys == WellFormedKeys \cup MalformedKeys
AccountIndices == {0, 1, 2}
StoredAddresses == {"null", FIXED_ADDRESS, "0xolder"}

startsWith0x(publicKey) == publicKey \in {"0xkeyA", "0xkeyB", "0xshort"}

\* What viem does with a key handed over `as Hex` unnormalized: a hex string is
\* encoded as its bytes and the empty string as no bytes; hashing the encoding of
\* any other text throws.
EncodesAsBytes(publicKey) == startsWith0x(publicKey) \/ publicKey = ""

\* factory.ts 153-173 and 237-255: the key as hex. A hex string is taken as it is;
\* other text goes through atob: the base64 text gives the key's bytes, the empty
\* string gives no bytes, and text atob rejects is replaced by its hash.
PublicKeyHex(publicKey) ==
  IF startsWith0x(publicKey) THEN publicKey
  ELSE IF publicKey = "base64(keyA)" THEN "0xkeyA"
  ELSE IF publicKey = "" THEN "0x"
  ELSE "keccak256(toHex(%%%))"

\* factory.ts calculateSalt 110-113: the stand-in for an empty key.
FallbackKey(email) ==
  IF email = "a@example.com" THEN "keccak256(toHex(a@example.com_fallback_key))"
  ELSE "keccak256(toHex(b@example.com_fallback_key))"

\* factory.ts calculateSalt (103-146): nonce || 0, then the hash of
\* (email, publicKeyHex, nonceValue); an empty key is replaced by FallbackKey.
calculateSalt(email, publicKey, nonce) ==
  keccak256(<<email,
              IF publicKey = "" THEN FallbackKey(email) ELSE PublicKeyHex(publicKey),
              nonce>>)

\* part_008 calculateSalt (51-57): the key is encoded as it is; encodeAbiParameters
\* throws for a key that is no hex string.
MultichainSalt(email, publicKey, accountIndex) ==
  IF EncodesAsBytes(publicKey) THEN keccak256(<<email, publicKey, accountIndex>>)
  ELSE <<"threw">>

\* What factory.getAddress(publicKey, salt) answers on chain: the CREATE2 address of
\* the account the factory deploys for that key and salt.
FactoryGetAddress(factory, publicKeyHex, salt) ==
  [kind |-> "address", address |-> <<"create2", factory, salt, <<"initCode", publicKeyHex>>>>]

\* The local fallback (factory.ts 206-223, part_008 86-103): the last 20 bytes of the
\* hash of (0xff, factory, salt, hash of the key as given); throws for a key that is
\* no hex string.
LocalAddress(factory, publicKey, salt) ==
  IF EncodesAsBytes(publicKey)
    THEN [kind |-> "address",
          address |-> <<"last20", keccak256(<<"0xff", factory, salt,
                                              keccak256(<<publicKey>>)>>)>>]
    ELSE [kind |-> "threw", address |-> <<"undefined">>]

\* factory.ts calculateSmartAccountAddress (148-225).
calculateSmartAccountAddress(publicKey, salt, readOk) ==
  IF readOk THEN FactoryGetAddress(FACTORY_ADDRESS, PublicKeyHex(publicKey), salt)
  ELSE LocalAddress(FACTORY_ADDRESS, publicKey, salt)

\* address-manager.ts getOrCreateSmartAccountAddress (18-57): the address returned.
getOrCreateSmartAccountAddress(email, publicKey) ==
  [kind |-> "address", address |-> <<FIXED_ADDRESS>>]

VARIABLES
  apc,      \* idle, input, then the function that derived the two addresses
  ain,      \* the two derivations' inputs: email, publicKey, accountIndex
  aout,     \* the two derived addresses
  stored,   \* localStorage['smart_account_address'].address
  ainit     \* the initCode of each derived account's first operation, once built

avars == <<apc, ain, aout, stored, ainit>>

NoAddress == [kind |-> "none", address |-> <<"undefined">>]
NoInput == [email |-> "", publicKey |-> "", accountIndex |-> 0]

AddressInit ==
  /\ apc = "idle"
  /\ ain = <<NoInput, NoInput>>
  /\ aout = <<NoAddress, NoAddress>>
  /\ stored = "null"
  /\ ainit = <<>>

\* Two derivations are asked for, with some address left in local storage.
AddrInput(in1, in2, st) ==
  /\ apc = "idle"
  /\ apc' = "input"
  /\ ain' = <<in1, in2>>
  /\ stored' = st
  /\ UNCHANGED <<aout, ainit>>

\* createSmartAccount(config, accountIndex) twice (factory.ts 37-47): the address is
\* what getOrCreateSmartAccountAddress returns; it leaves the fixed address stored.
DeriveCreateSmartAccount ==
  /\ apc = "input"
  /\ apc' = "createSmartAccount"
  /\ aout' = [i \in {1, 2} |-> getOrCreateSmartAccountAddress(ain[i].email, ain[i].publicKey)]
  /\ stored' = FIXED_ADDRESS
  /\ UNCHANGED <<ain, ainit>>

\* calculateSmartAccountAddress(publicKey, calculateSalt(...)) twice, each with its
\* own outcome of the factory read.
DeriveFromFactory(readOk1, readOk2) ==
  /\ apc = "input"
  /\ apc' = "calculateSmartAccountAddress"
  /\ aout' = [i \in {1, 2} |->
       calculateSmartAccountAddress(
         ain[i].publicKey,
         calculateSalt(ain[i].email, ain[i].publicKey, ain[i].accountIndex),
         IF i = 1 THEN readOk1 ELSE readOk2)]
  /\ UNCHANGED <<ain, stored, ainit>>

\* part_008: calculateSalt and calculateSmartAccountAddress(networkId, ...) twice on
\* one network. The key goes to the factory read as it is; a key that is no hex
\* string makes the encoding throw in the try and again in the fallback.
DeriveMultichain(readOk1, readOk2) ==
  /\ apc = "input"
  /\ apc' = "multichain"
  /\ aout' = [i \in {1, 2} |->
       LET salt == MultichainSalt(ain[i].email, ain[i].publicKey, ain[i].accountIndex)
           readOk == IF i = 1 THEN readOk1 ELSE readOk2
       IN IF ~EncodesAsBytes(ain[i].publicKey)
            THEN [kind |-> "threw", address |-> <<"undefined">>]
            ELSE IF readOk THEN FactoryGetAddress(FACTORY_ADDRESS, ain[i].publicKey, salt)
            ELSE LocalAddress(FACTORY_ADDRESS, ain[i].publicKey, salt)]
  /\ UNCHANGED <<ain, stored, ainit>>

\* ================================================================= building
MaxBuilds == 2
ReadOutcomes == {"ok", "error"}
\* What the chain holds for the account: an undeployed account has nonce 0.
ChainStates ==
  {[deployed |-> FALSE, nonce |-> 0], [deployed |-> TRUE, nonce |-> 0],
   [deployed |-> TRUE, nonce |-> 1]}

EmptyCode == <<"0x">>
InvalidByteSequence == <<"Invalid", "byte", "sequence">>
RpcRequestFailed == <<"HTTP", "request", "failed">>

\* part_007 calculateSalt (153-159): the key is encoded as it is; hashing the
\* encoding of a key that is no hex string throws.
AccountSalt(email, publicKey) ==
  IF EncodesAsBytes(publicKey) THEN keccak256(<<email, publicKey>>) ELSE <<"threw">>

\* part_007 generateInitCode (285-294): the factory address, then the encoded
\* createAccount(publicKey, salt) call.
AccountInitCode(publicKey, salt) ==
  <<FACTORY_ADDRESS, "createAccount", publicKey, salt>>

\* factory.ts generateInitCode (227-276): by the account object's isDeployed flag;
\* the key is normalized, the salt is calculateSalt(email, publicKey) without nonce.
generateInitCode(acct) ==
  IF acct.isDeployed THEN EmptyCode
  ELSE <<FACTORY_ADDRESS, "createAccount", PublicKeyHex(acct.publicKey),
         calculateSalt(acct.email, acct.publicKey, 0)>>

\* part_007 isAccountDeployed (243-256): false when the read fails.
isAccountDeployed(chainState, codeRead) ==
  IF codeRead = "ok" THEN chainState.deployed ELSE FALSE

\* part_007 getAccountNonce (261-280): 0n when the read fails.
getAccountNonce(chainState, nonceRead) ==
  IF nonceRead = "ok" THEN chainState.nonce ELSE 0

VARIABLES
  kpc,       \* idle, chain (inputs drawn), account (createSmartAccount returned)
  account,   \* the SmartAccount object the application holds
  chain,     \* the account's deployed state and nonce on chain
  creads,    \* outcomes of createSmartAccount's two chain reads
  builds     \* what each build returned or threw, with the chain state it ran on

kvars == <<kpc, account, chain, creads, builds>>

NoAccount == [email |-> "", publicKey |-> "", isDeployed |-> FALSE, nonce |-> 0]
NoReads == [code |-> "none", nonce |-> "none"]

BuildInit ==
  /\ kpc = "idle"
  /\ account = NoAccount
  /\ chain = [deployed |-> FALSE, nonce |-> 0]
  /\ creads = NoReads
  /\ builds = <<>>

\* The application is about to create the account object for (email, publicKey).
BuildInput(email, publicKey, chainState) ==
  /\ kpc = "idle"
  /\ kpc' = "chain"
  /\ account' = [NoAccount EXCEPT !.email = email, !.publicKey = publicKey]
  /\ chain' = chainState
  /\ UNCHANGED <<creads, builds>>

\* factory.ts createSmartAccount (37-101): isDeployed from getBytecode, false when
\* the read fails; the nonce is read for a deployed account only and stays 0n when
\* that read fails.
createSmartAccount(codeRead, nonceRead) ==
  /\ kpc = "chain"
  /\ kpc' = "account"
  /\ LET isDeployed == codeRead = "ok" /\ chain.deployed
     IN /\ account' = [account EXCEPT
             !.isDeployed = isDeployed,
             !.nonce = IF isDeployed /\ nonceRead = "ok" THEN chain.nonce ELSE 0]
        /\ creads' = [code |-> codeRead,
                      nonce |-> IF isDeployed THEN nonceRead ELSE "none"]
  /\ UNCHANGED <<chain, builds>>

\* The account's first operation is mined: the factory deploys it.
ChainDeploys ==
  /\ kpc = "account"
  /\ ~chain.deployed
  /\ builds # <<>>
  /\ chain' = [deployed |-> TRUE, nonce |-> 1]
  /\ UNCHANGED <<kpc, account, creads, builds>>

BuildRecord(by, kind, initCode, nonce, codeRead, nonceRead, error) ==
  [by |-> by, kind |-> kind, initCode |-> initCode, nonce |-> nonce,
   chainDeployed |-> chain.deployed, chainNonce |-> chain.nonce,
   codeRead |-> codeRead, nonceRead |-> nonceRead, error |-> error]

\* part_007 createUserOperation (299-356): deployed state and nonce are read, the
\* salt is calculated, initCode chosen, then the gas price is read (its failure is
\* not caught).
createUserOperation(codeRead, nonceRead, gasRead) ==
  /\ kpc = "account"
  /\ Len(builds) < MaxBuilds
  /\ LET deployed == isAccountDeployed(chain, codeRead)
         nonce == getAccountNonce(chain, nonceRead)
         salt == AccountSalt(account.email, account.publicKey)
         initCode == IF deployed THEN EmptyCode
                     ELSE AccountInitCode(account.publicKey, salt)
         by == "createUserOperation"
     IN builds' = Append(builds,
          IF salt = <<"threw">>
            THEN BuildRecord(by, "threw", EmptyCode, 0, codeRead, nonceRead,
                             InvalidByteSequence)
          ELSE IF gasRead = "error"
            THEN BuildRecord(by, "threw", EmptyCode, 0, codeRead, nonceRead,
                             RpcRequestFailed)
          ELSE BuildRecord(by, "op", initCode, nonce, codeRead, nonceRead, <<>>))
  /\ UNCHANGED <<kpc, account, chain, creads>>

\* part_005 createTransferUserOp (52-130): no chain read; initCode from
\* generateInitCode(account), the nonce is the caller's.
createTransferUserOp ==
  /\ kpc = "account"
  /\ Len(builds) < MaxBuilds
  /\ builds' = Append(builds,
       BuildRecord("createTransferUserOp", "op", generateInitCode(account),
                   account.nonce, "none", "none", <<>>))
  /\ UNCHANGED <<kpc, account, chain, creads>>

\* part_007 calculateSmartAccountAddress 168-195: the key handed to the factory
\* read; an empty key is replaced by the salt.
AccountKeyHex(publicKey, salt) ==
  IF publicKey = "" THEN salt ELSE <<"bytes", PublicKeyHex(publicKey)>>

\* part_007: calculateSalt(email, publicKey) (153-159), then
\* calculateSmartAccountAddress(publicKey, salt) (164-238), twice. The salt throws
\* for a key that does not encode; the fallback hashes the key as given.
DeriveAccount(readOk1, readOk2) ==
  /\ apc = "input"
  /\ apc' = "account"
  /\ aout' = [i \in {1, 2} |->
       LET salt == AccountSalt(ain[i].email, ain[i].publicKey)
           readOk == IF i = 1 THEN readOk1 ELSE readOk2
       IN IF salt = <<"threw">>
            THEN [kind |-> "threw", address |-> <<"undefined">>]
            ELSE IF readOk
              THEN FactoryGetAddress(FACTORY_ADDRESS,
                                     AccountKeyHex(ain[i].publicKey, salt), salt)
            ELSE LocalAddress(FACTORY_ADDRESS, ain[i].publicKey, salt)]
  /\ UNCHANGED <<ain, stored, ainit>>

\* The first operation of each derived account is built while the account is not
\* deployed. An account of the part_007 module goes through its createUserOperation
\* (318-319): calculateSalt(email, publicKey), then generateInitCode(publicKey, salt).
\* An account object of createSmartAccount (factory.ts) or createMultiChainAccount
\* (part_008 160-169) carries address, publicKey, email and isDeployed, no index;
\* its operations are built by part_005 (40, 120) with generateInitCode(account) of
\* factory.ts. No operation is built for a derivation that threw.
BuildFirstOperation ==
  /\ apc \in {"createSmartAccount", "calculateSmartAccountAddress", "multichain", "account"}
  /\ ainit = <<>>
  /\ ainit' = [i \in {1, 2} |->
       IF aout[i].kind # "address" THEN <<"none">>
       ELSE IF apc = "account"
         THEN AccountInitCode(ain[i].publicKey,
                              AccountSalt(ain[i].email, ain[i].publicKey))
       ELSE generateInitCode([email |-> ain[i].email, publicKey |-> ain[i].publicKey,
                              isDeployed |-> FALSE, nonce |-> 0])]
  /\ UNCHANGED <<apc, ain, aout, stored>>

\* =================================================================== quotes
MaxQuotes == 2

Pair(fn, ft, tn, tt) ==
  [fromNetwork |-> fn, toNetwork |-> tn, fromToken |-> ft, toToken |-> tt]

\* config.ts BRIDGE_PAIRS (132-161).
BRIDGE_PAIRS ==
  { Pair("sepolia", "ETH", "xlayer", "OKB"), Pair("sepolia", "OKB", "xlayer", "OKB"),
    Pair("xlayer", "OKB", "sepolia", "ETH"), Pair("xlayer", "OKB", "sepolia", "OKB") }

\* Pairs a caller may ask a quote for: two of BRIDGE_PAIRS, and three that are not in
\* it (a token the destination does not have, a network nobody knows, a pair on one
\* network).
QuotePairs ==
  { Pair("sepolia", "ETH", "xlayer", "OKB"), Pair("xlayer", "OKB", "sepolia", "ETH"),
    Pair("sepolia", "ETH", "xlayer", "ETH"), Pair("polygon", "MATIC", "xlayer", "OKB"),
    Pair("sepolia", "ETH", "sepolia", "OKB") }

\* Amounts in millionths of a token: "1.0", "2.5", "0.001234".
QuoteAmounts == {1000000, 2500000, 1234}

\* part_002 getChainId (314-323): throws 'Unsupported network' for any other name.
KnownNetwork(network) == network \in {"sepolia", "xlayer"}

\* part_002 getTokenAddress (328-339): throws 'Unsupported token' otherwise.
KnownToken(network, token) ==
  \/ network = "sepolia" /\ token \in {"ETH", "OKB"}
  \/ network = "xlayer" /\ token = "OKB"

\* part_002 65-70: the four lookups before the request is sent.
ResolvesPair(p) ==
  /\ KnownNetwork(p.fromNetwork) /\ KnownNetwork(p.toNetwork)
  /\ KnownToken(p.fromNetwork, p.fromToken) /\ KnownToken(p.toNetwork, p.toToken)

\* (x * permille / 1000).toFixed(6) on millionths: rounded to the nearest millionth
\* (computed on the thousands and the rest apart, to stay within 32 bits).
ToFixed6(x, permille) ==
  (x \div 1000) * permille + (2 * (x % 1000) * permille + 1000) \div 2000

\* What the quote request may meet: a quote, a rejected fetch, a response that is
\* not ok, an answer with code # '0', an answer without data.
QuoteAnswers == {"live", "unreachable", "http_error", "api_error", "no_data"}
\* The live quote's destination amount, in thousandths of the source amount.
LivePermille == {990, 997}
LiveBridgeIds == {"211", "fallback_bridge"}

FallbackRoute == <<"Fallback", "estimation", "(OKX", "API", "unavailable)">>

\* Variant: the fallback quote is labelled as the live one is.
FallbackQuote_LiveRoute(amount) ==
  [kind |-> "quote", fromAmount |-> amount, toAmount |-> ToFixed6(amount, 995),
   bridgeId |-> "fallback_", estimatedTime |-> 300,
   fees |-> ToFixed6(amount, 5), route |-> <<"OKX", "Bridge", "fallback_">>]

\* part_002 getRealBridgeQuote's catch (122-134).
FallbackQuote(amount) ==
  [kind |-> "quote", fromAmount |-> amount, toAmount |-> ToFixed6(amount, 995),
   bridgeId |-> "fallback_", estimatedTime |-> 300,
   fees |-> ToFixed6(amount, 5), route |-> FallbackRoute]

\* part_002 109-120: the aggregator's quote.
LiveQuote(amount, permille, bridgeId) ==
  [kind |-> "quote", fromAmount |-> amount, toAmount |-> ToFixed6(amount, permille),
   bridgeId |-> bridgeId, estimatedTime |-> 180,
   fees |-> amount - ToFixed6(amount, permille), route |-> <<"OKX", "Bridge", bridgeId>>]

\* cross-chain.ts getQuote 79-86: the BridgeQuote made of the real bridge's quote.
BridgeQuote(realQuote) ==
  [kind |-> "quote", fromAmount |-> realQuote.fromAmount, toAmount |-> realQuote.toAmount,
   rate |-> <<realQuote.toAmount, realQuote.fromAmount>>, fees |-> realQuote.fees,
   estimatedTime |-> realQuote.estimatedTime, route |-> realQuote.route]

VARIABLES
  qpc,       \* idle, fetching, returned
  qargs,     \* getQuote's pair and amount
  qanswer,   \* what the last quote request met ("none": no request was sent)
  qfetches,  \* requests sent to /api/okx/bridge-quote by the current call
  qcount,    \* getQuote calls so far
  qresult    \* what getQuote gave its caller

qvars == <<qpc, qargs, qanswer, qfetches, qcount, qresult>>

NoQuote == [kind |-> "none"]

QuoteInit ==
  /\ qpc = "idle"
  /\ qargs = [pair |-> Pair("", "", "", ""), amount |-> 0]
  /\ qanswer = "none"
  /\ qfetches = 0
  /\ qcount = 0
  /\ qresult = NoQuote

\* getQuote(fromNetwork, toNetwork, fromToken, toToken, amount) up to the fetch of
\* getRealBridgeQuote: a lookup that throws is caught by getRealBridgeQuote's own
\* catch, which returns the fallback quote; getQuote's catch (88-117) is never
\* entered.
GetQuote(p, amount) ==
  /\ qpc \in {"idle", "returned"}
  /\ qcount < MaxQuotes
  /\ qcount' = qcount + 1
  /\ qargs' = [pair |-> p, amount |-> amount]
  /\ qanswer' = "none"
  /\ IF ResolvesPair(p)
       THEN /\ qpc' = "fetching"
            /\ qfetches' = 1
            /\ qresult' = NoQuote
       ELSE /\ qpc' = "returned"
            /\ qfetches' = 0
            /\ qresult' = BridgeQuote(FallbackQuote(amount))

\* The request settles (part_002 90-134), and getQuote returns (cross-chain.ts 77-86).
QuoteAnswer(answer, permille, bridgeId) ==
  /\ qpc = "fetching"
  /\ qpc' = "returned"
  /\ qanswer' = answer
  /\ qresult' = BridgeQuote(IF answer = "live"
                              THEN LiveQuote(qargs.amount, permille, bridgeId)
                              ELSE FallbackQuote(qargs.amount))
  /\ UNCHANGED <<qargs, qfetches, qcount>>

\* ================================================================== history
MaxHistoryCalls == 2
MaxClock == 1
\* Simulated records that may have moved beyond 'pending'.
MaxSettling == 1

\* Recipient addresses as executeBridge's callers write them (checksummed), and user
\* addresses as the history's callers write them (one of them the lower-case
\* spelling of a recipient).
Recipients == {"0xAbC1", "0xDeF2"}
UserAddresses == {"0xabc1", "0xDeF2"}

\* String.prototype.toLowerCase on the addresses the model uses.
toLowerCase(address) ==
  IF address = "0xAbC1" THEN "0xabc1"
  ELSE IF address = "0xDeF2" THEN "0xdef2"
  ELSE IF address = "0xA0b86991c6218b36c1d19D4a2e9Eb0cE3606eB48"
    THEN "0xa0b86991c6218b36c1d19d4a2e9eb0ce3606eb48"
  ELSE IF address = "0x7F5c764cBc14f9669B88837ca1490cCa17c31607"
    THEN "0x7f5c764cbc14f9669b88837ca1490cca17c31607"
  ELSE IF address = "0xC02aaA39b223FE8D0A0e5C4F27eAD9083C756Cc2"
    THEN "0xc02aaa39b223fe8d0a0e5c4f27ead9083c756cc2"
  ELSE address

\* Array.prototype.filter(tx => tx.recipient.toLowerCase() ===
\* userAddress.toLowerCase()): the elements that pass, in their order.
Filter(seq, user) ==
  SelectSeq(seq, LAMBDA tx : toLowerCase(tx.recipient) = toLowerCase(user))

\* Array.prototype.sort((a, b) => b.timestamp - a.timestamp): a stable sort, so an
\* element comes after those with a later timestamp and after the earlier elements
\* with its own.
SortNewestFirst(seq) ==
  LET n == Len(seq)
      place == [i \in 1..n |->
                  1 + Cardinality({j \in 1..n : seq[j].timestamp > seq[i].timestamp})
                    + Cardinality({j \in 1..(i - 1) : seq[j].timestamp = seq[i].timestamp})]
  IN [k \in 1..n |-> seq[CHOOSE i \in 1..n : place[i] = k]]

\* Variant: the filter compares the recipient as it is written.
getUserBridgeHistory_CaseSensitive(registry, userAddress) ==
  SortNewestFirst(SelectSeq(registry, LAMBDA tx : tx.recipient = userAddress))

\* cross-chain.ts getUserBridgeHistory (257-261) on the registry's values in
\* insertion order.
getUserBridgeHistory(registry, userAddress) ==
  SortNewestFirst(Filter(registry, userAddress))

VARIABLES
  utransactions,  \* CrossChainBridge.transactions as Map.values() lists it
  upending,       \* records of executeRealBridge calls that have not returned yet
  unow,           \* Date.now()
  ucalls,         \* executeBridge calls so far
  uhistory        \* what the last getUserBridgeHistory returned, for the registry as it is

uvars == <<utransactions, upending, unow, ucalls, uhistory>>

NoHistory == [user |-> "", list |-> <<>>, asked |-> FALSE]

HistoryInit ==
  /\ utransactions = <<>>
  /\ upending = {}
  /\ unow = 0
  /\ ucalls = 0
  /\ uhistory = NoHistory

HistoryRecord(id, recipient, timestamp, status) ==
  [id |-> id, recipient |-> recipient, timestamp |-> timestamp, status |-> status]

\* Time passes.
HistTick ==
  /\ unow < MaxClock
  /\ unow' = unow + 1
  /\ UNCHANGED <<utransactions, upending, ucalls, uhistory>>

\* executeBridge for a pair the real bridge does not take (cross-chain.ts 187-204):
\* the 'sim_bridge_' record, timestamp Date.now(), is set in the registry.
HistExecuteSim(recipient) ==
  /\ ucalls < MaxHistoryCalls
  /\ ucalls' = ucalls + 1
  /\ utransactions' = Append(utransactions,
       HistoryRecord(<<"sim_bridge", ucalls + 1>>, recipient, unow, "pending"))
  /\ uhistory' = NoHistory
  /\ UNCHANGED <<upending, unow>>

\* executeBridge for a pair of the real bridge, up to executeRealBridge's first
\* await (part_002 152-168): the record, timestamp Date.now(), is in the real
\* bridge's own registry only.
HistExecuteReal(recipient) ==
  /\ ucalls < MaxHistoryCalls
  /\ ucalls' = ucalls + 1
  /\ upending' = upending \cup
       {HistoryRecord(<<"real_bridge", ucalls + 1>>, recipient, unow, "pending")}
  /\ UNCHANGED <<utransactions, unow, uhistory>>

\* executeRealBridge returned (cross-chain.ts 158-176): the copy, with the real
\* record's timestamp, is set in the registry.
HistRealReturned(rec) ==
  /\ rec \in upending
  /\ upending' = upending \ {rec}
  /\ utransactions' = Append(utransactions, [rec EXCEPT !.status = "processing"])
  /\ uhistory' = NoHistory
  /\ UNCHANGED <<unow, ucalls>>

\* executeRealBridge threw (cross-chain.ts 178-204): the simulation's record is set,
\* timestamp Date.now().
HistRealFailed(rec) ==
  /\ rec \in upending
  /\ upending' = upending \ {rec}
  /\ utransactions' = Append(utransactions,
       HistoryRecord(<<"sim_bridge", rec.id[2]>>, rec.recipient, unow, "pending"))
  /\ uhistory' = NoHistory
  /\ UNCHANGED <<unow, ucalls>>

\* transactions.set(txId, bridgeTx) with a new status on a simulated record
\* (cross-chain.ts 218, 227, 233, 240): the key keeps its place in the Map.
HistSetStatus(i, status) ==
  /\ i \in DOMAIN utransactions
  /\ utransactions[i].id[1] = "sim_bridge"
  /\ \/ utransactions[i].status # "pending"
     \/ Cardinality({j \in DOMAIN utransactions :
                       /\ utransactions[j].id[1] = "sim_bridge"
                       /\ utransactions[j].status # "pending"}) < MaxSettling
  /\ \/ utransactions[i].status = "pending" /\ status \in {"processing", "failed"}
     \/ utransactions[i].status = "processing" /\ status \in {"completed", "failed"}
  /\ utransactions' = [utransactions EXCEPT ![i].status = status]
  /\ uhistory' = NoHistory
  /\ UNCHANGED <<upending, unow, ucalls>>

\* getUserBridgeHistory(userAddress) is called.
GetUserBridgeHistory(userAddress) ==
  /\ uhistory' = [user |-> userAddress, asked |-> TRUE,
                  list |-> getUserBridgeHistory(utransactions, userAddress)]
  /\ UNCHANGED <<utransactions, upending, unow, ucalls>>

\* ============================================================== composition
\* executeRealBridge's step 3 as the code composes it: executeSmartAccountTransaction
\* (part_002 232-268) calling executeGaslessOperation (execute.ts 17-98).

\* part_002 256-261: the object handed to executeGaslessOperation.
SubmitOptions ==
  [account |-> "smartAccount", to |-> "bridgeTxData.to", data |-> "bridgeTxData.data",
   value |-> "bridgeTxData.value"]

\* A property read: a property the object does not have reads as undefined.
HasProp(obj, name) == name \in DOMAIN obj

ReadOfUndefined(name) ==
  <<"Cannot", "read", "properties", "of", "undefined", "(", "reading", name, ")">>
NoValidPasskey == <<"No", "valid", "passkey", "found", "for", "signing">>
TransactionFailed(error) == <<"Transaction", "failed", ":", error>>

\* bundler.ts estimateUserOperationGas (73-110) for options.userOp: with userOp
\* undefined, reading userOp.nonce throws inside the try before any request is
\* sent; the catch reads the gas price and then throws reading userOp.initCode.
EstimateFor(options, gasPriceOk) ==
  IF HasProp(options, "userOp") THEN [kind |-> "estimate", message |-> <<>>]
  ELSE IF gasPriceOk THEN [kind |-> "threw", message |-> ReadOfUndefined("initCode")]
  ELSE [kind |-> "threw", message |-> ChainReadError]

\* execute.ts executeGaslessOperation (17-98) when paymaster, passkey and bundler
\* all succeed: the estimation's error goes through the outer catch; otherwise
\* step 4 reads xlayer.id, which throws when the import is undefined, and step 6
\* returns the bundler's opHash, a Hex string.
executeGaslessOperation(options, gasPriceOk, xlayerDefined, opHash) ==
  LET estimate == EstimateFor(options, gasPriceOk)
  IN IF estimate.kind = "threw"
       THEN [kind |-> "threw", message |-> ExecuteCatch(estimate.message), value |-> NoHash]
     ELSE IF ~xlayerDefined
       THEN [kind |-> "threw", message |-> ExecuteCatch(XLayerUndefined), value |-> NoHash]
     ELSE [kind |-> "returned", message |-> <<>>, value |-> opHash]

\* part_002 executeSmartAccountTransaction (232-268): no stored passkey throws;
\* createSmartAccount catches its own read failures; the awaited result is a Hex
\* string, whose .success and .txHash read as undefined, so line 263 throws.
executeSmartAccountTransaction(passkey, gasPriceOk, xlayerDefined, opHash) ==
  IF ~passkey THEN [kind |-> "threw", message |-> NoValidPasskey, value |-> NoHash]
  ELSE LET res == executeGaslessOperation(SubmitOptions, gasPriceOk, xlayerDefined, opHash)
       IN IF res.kind = "threw" THEN res
          ELSE [kind |-> "threw", message |-> TransactionFailed("undefined"),
                value |-> NoHash]

VARIABLES
  csubmit   \* per call: the submission attempt and the external failures it met

cvars == <<csubmit>>

NoSubmit == [attempted |-> FALSE, failures |-> {}, message |-> <<>>]

ComposeInit == csubmit = [c \in Calls |-> NoSubmit]

\* executeRealBridge 204-226 with the submission as composed above.
SubmitViaSmartAccount(c) ==
  /\ pc[c] = "real_submit"
  /\ \E passkey, gasPriceOk, xlayerDefined \in BOOLEAN :
       LET out == executeSmartAccountTransaction(passkey, gasPriceOk, xlayerDefined,
                                                 RealTxHash(c))
       IN /\ csubmit' = [csubmit EXCEPT ![c] =
               [attempted |-> TRUE,
                failures |-> (IF passkey THEN {} ELSE {"passkey"}) \cup
                             (IF gasPriceOk THEN {} ELSE {"gas_price"}),
                message |-> out.message]]
          /\ IF out.kind = "returned" THEN RealSubmitted(c) ELSE RealFailed(c)

\* ================================================================== monitor
\* monitorBridgeTransaction (part_002 273-309) with what each run of checkStatus
\* was answered.
VARIABLE polled   \* per transaction id: the answer of the latest status request (observation only)

mvars == <<polled>>

MonitorInit == polled = [id \in AllIds |-> "none"]

\* One run of checkStatus: the status request, then the branch for its answer.
ObservedPoll(id, s) ==
  /\ CheckStatus(id, s)
  /\ polled' = [polled EXCEPT ![id] = s]

\* ============================================================= waitForUserOp
\* waitForUserOp (part_007 436-474; part_006 434-472 is the same text): the
\* attempt-counted wait for a user operation's receipt.
maxAttempts == 30
UserOpPollDelay == 2000

\* What one eth_getUserOperationReceipt request gives: a result with a receipt, a
\* result without one, or an exception of fetch or of response.json().
UserOpAnswers == {"receipt", "null", "error"}

BundlerUrlNotConfigured == <<"Bundler", "URL", "not", "configured">>
UserOpTimeout == <<"UserOp", "timeout">>

VARIABLES
  opc,        \* idle, loop, done
  attempts,   \* the loop's counter
  orequests,  \* receipt requests issued so far
  onow,       \* ms since the call
  oprev,      \* time of the request before the latest one (-1: none)
  olast,      \* time of the latest request (-1: none)
  oanswer,    \* what the latest request gave
  oreturn     \* what waitForUserOp returned or threw

ovars == <<opc, attempts, orequests, onow, oprev, olast, oanswer, oreturn>>

NoReturn == [kind |-> "none", value |-> <<>>]

UserOpWaitInit ==
  /\ opc = "idle"
  /\ attempts = 0
  /\ orequests = 0
  /\ onow = 0
  /\ oprev = -1
  /\ olast = -1
  /\ oanswer = "none"
  /\ oreturn = NoReturn

\* 437-443: the bundler URL is read; without one the call throws at once.
WaitForUserOpStart(configured) ==
  /\ opc = "idle"
  /\ IF configured
       THEN opc' = "loop" /\ UNCHANGED oreturn
       ELSE opc' = "done" /\ oreturn' = [kind |-> "threw", value |-> BundlerUrlNotConfigured]
  /\ UNCHANGED <<attempts, orequests, onow, oprev, olast, oanswer>>

\* Variant: a request that throws is retried without being counted.
WaitForUserOpRequest_ErrorsUncounted(latency, answer) ==
  /\ opc = "loop"
  /\ attempts < maxAttempts
  /\ orequests' = orequests + 1
  /\ oprev' = olast
  /\ olast' = onow
  /\ oanswer' = answer
  /\ IF answer = "receipt"
       THEN /\ opc' = "done"
            /\ oreturn' = [kind |-> "returned", value |-> <<"transactionHash">>]
            /\ onow' = onow + latency
            /\ UNCHANGED attempts
       ELSE /\ attempts' = IF answer = "error" THEN attempts ELSE attempts + 1
            /\ onow' = onow + latency + UserOpPollDelay
            /\ UNCHANGED <<opc, oreturn>>

\* One turn of the loop (445-471): the request; a receipt returns its
\* transactionHash, anything else (the catch included) falls through to
\* attempts++ and the 2 second sleep.
WaitForUserOpRequest(latency, answer) ==
  /\ opc = "loop"
  /\ attempts < maxAttempts
  /\ orequests' = orequests + 1
  /\ oprev' = olast
  /\ olast' = onow
  /\ oanswer' = answer
  /\ IF answer = "receipt"
       THEN /\ opc' = "done"
            /\ oreturn' = [kind |-> "returned", value |-> <<"transactionHash">>]
            /\ onow' = onow + latency
            /\ UNCHANGED attempts
       ELSE /\ attempts' = attempts + 1
            /\ onow' = onow + latency + UserOpPollDelay
            /\ UNCHANGED <<opc, oreturn>>

\* The loop condition fails (445, 473).
WaitForUserOpTimeout ==
  /\ opc = "loop"
  /\ ~(attempts < maxAttempts)
  /\ opc' = "done"
  /\ oreturn' = [kind |-> "threw", value |-> UserOpTimeout]
  /\ UNCHANGED <<attempts, orequests, onow, oprev, olast, oanswer>>

\* ================================================================ rate limit
\* checkRateLimit (lib/security.ts 54-77) and its module-level requestCounts map.
MaxRateClock == 4

Identifiers == {"update-account:1", "update-account:2"}
\* The limit and windowMs arguments: any number the caller passes.
Limits == {0, 1, 2}
Windows == {2}

VARIABLES
  requestCounts,  \* identifier -> {count, resetTime}; NoRecord where the map has no entry
  lnow,           \* Date.now()
  laccepted,      \* per identifier: calls answered true since its window started (observation only)
  lcall           \* the latest call: arguments, answer, and the map before it (observation only)

lvars == <<requestCounts, lnow, laccepted, lcall>>

NoRecord == [count |-> 0, resetTime |-> -1]
NoCall == [identifier |-> "", limit |-> 0, answer |-> FALSE, fresh |-> FALSE,
           before |-> [i \in Identifiers |-> NoRecord]]

RateLimitInit ==
  /\ requestCounts = [i \in Identifiers |-> NoRecord]
  /\ lnow = 1
  /\ laccepted = [i \in Identifiers |-> 0]
  /\ lcall = NoCall

\* Time passes.
RateTick ==
  /\ lnow < MaxRateClock
  /\ lnow' = lnow + 1
  /\ UNCHANGED <<requestCounts, laccepted, lcall>>

\* checkRateLimit(identifier, limit, windowMs) (56-77).
checkRateLimit(identifier, limit, windowMs) ==
  LET record == requestCounts[identifier]
      fresh == record = NoRecord \/ record.resetTime < lnow
      answer == fresh \/ ~(record.count >= limit)
  IN /\ requestCounts' =
          IF fresh
            THEN [requestCounts EXCEPT ![identifier] =
                    [count |-> 1, resetTime |-> lnow + windowMs]]
          ELSE IF record.count >= limit THEN requestCounts
          ELSE [requestCounts EXCEPT ![identifier].count = record.count + 1]
     /\ laccepted' = [laccepted EXCEPT ![identifier] =
                        IF fresh THEN 1 ELSE IF answer THEN @ + 1 ELSE @]
     /\ lcall' = [identifier |-> identifier, limit |-> limit, answer |-> answer,
                  fresh |-> fresh, before |-> requestCounts]
     /\ UNCHANGED lnow

\* ==================================================================== routes
\* CrossChainAggregator (lib/advanced/cross-chain.ts): findBestCrossChainRoute and
\* what it calls.
RouteChains == {1, 10, 196, 5}
\* USDC on Ethereum (checksummed and lower case), USDC on Optimism, WETH.
RouteTokens ==
  {"0xA0b86991c6218b36c1d19D4a2e9Eb0cE3606eB48",
   "0xa0b86991c6218b36c1d19d4a2e9eb0ce3606eb48",
   "0x7F5c764cBc14f9669B88837ca1490cCa17c31607",
   "0xC02aaA39b223FE8D0A0e5C4F27eAD9083C756Cc2"}
RouteAmounts == {0, 999, 1000, 12345}

\* getBridgeToken (188-202): the chain's USDC address, or the zero address.
getBridgeToken(chainId) ==
  IF chainId \in {1, 196} THEN "0xA0b86991c6218b36c1d19D4a2e9Eb0cE3606eB48"
  ELSE IF chainId = 10 THEN "0x7F5c764cBc14f9669B88837ca1490cCa17c31607"
  ELSE IF chainId = 56 THEN "0x8AC76a51cc950d9822D68b83fE1Ad97B32Cd580d"
  ELSE IF chainId = 137 THEN "0x2791Bca1f2de4661ED88A30C99A7a9449Aa84174"
  ELSE IF chainId = 42161 THEN "0xFF970A61A04b1cA14834A43f5dE4533eBDDB5CC8"
  ELSE IF chainId = 43114 THEN "0xB97EF9Ef8734C71904D8002F8b6Bc66Dd9c48a6E"
  ELSE "0x0000000000000000000000000000000000000000"

\* isOKXBridgeSupported (172-175)
isOKXBridgeSupported(fromChainId, toChainId) ==
  LET okxSupportedChains == {1, 56, 137, 196, 42161, 10, 43114}
  IN fromChainId \in okxSupportedChains /\ toChainId \in okxSupportedChains

\* isLayerZeroSupported (180-183)
isLayerZeroSupported(fromChainId, toChainId) ==
  LET lzChains == {1, 56, 137, 42161, 10, 43114}
  IN fromChainId \in lzChains /\ toChainId \in lzChains

\* selectBridgeProtocol (157-169)
selectBridgeProtocol(fromChainId, toChainId) ==
  IF isOKXBridgeSupported(fromChainId, toChainId) THEN "OKX Bridge"
  ELSE IF isLayerZeroSupported(fromChainId, toChainId) THEN "LayerZero"
  ELSE "Across Protocol"

\* Math.floor(fee * 1000) for the feePercentage table (208-217): 0.1 gives 100,
\* 0.06 gives 60, 0.12 gives 120; a protocol not in the table gets 0.1.
FeeTimes1000(protocol) ==
  IF protocol = "LayerZero" THEN 60
  ELSE IF protocol = "Across Protocol" THEN 120
  ELSE 100

\* estimateBridgeFee (207-219): (amount * BigInt(Math.floor(fee * 1000))) / 1000n.
estimateBridgeFee(amount, protocol) == (amount * FeeTimes1000(protocol)) \div 1000

\* estimateBridgeTime (224-231)
estimateBridgeTime(protocol) ==
  IF protocol = "LayerZero" THEN 180
  ELSE IF protocol = "Across Protocol" THEN 120
  ELSE 300

SwapStep(type, chainId, fromToken, toToken, amount, protocol) ==
  [type |-> type, chainId |-> chainId, fromToken |-> fromToken, toToken |-> toToken,
   amount |-> amount, protocol |-> protocol]

\* Variant: the route ends with the bridge step.
calculateCrossChainRoute_NoDestinationSwap(fromChainId, toChainId, fromToken, toToken, amount) ==
  LET bridgeToken == getBridgeToken(fromChainId)
      bridgeProtocol == selectBridgeProtocol(fromChainId, toChainId)
      bridgeFee == estimateBridgeFee(amount, bridgeProtocol)
      step1 == IF toLowerCase(fromToken) # toLowerCase(bridgeToken)
                 THEN <<SwapStep("swap", fromChainId, fromToken, bridgeToken, amount,
                                 "OKX DEX")>>
                 ELSE <<>>
      step2 == <<SwapStep("bridge", fromChainId, bridgeToken, bridgeToken,
                          amount - bridgeFee, bridgeProtocol)>>
  IN [kind |-> "returned", fromChain |-> fromChainId, toChain |-> toChainId,
      bridgeProtocol |-> bridgeProtocol,
      estimatedTime |-> estimateBridgeTime(bridgeProtocol),
      bridgeFee |-> bridgeFee, steps |-> step1 \o step2]

\* calculateCrossChainRoute (99-154)
calculateCrossChainRoute(fromChainId, toChainId, fromToken, toToken, amount) ==
  LET bridgeToken == getBridgeToken(fromChainId)
      bridgeProtocol == selectBridgeProtocol(fromChainId, toChainId)
      bridgeFee == estimateBridgeFee(amount, bridgeProtocol)
      step1 == IF toLowerCase(fromToken) # toLowerCase(bridgeToken)
                 THEN <<SwapStep("swap", fromChainId, fromToken, bridgeToken, amount,
                                 "OKX DEX")>>
                 ELSE <<>>
      step2 == <<SwapStep("bridge", fromChainId, bridgeToken, bridgeToken,
                          amount - bridgeFee, bridgeProtocol)>>
      step3 == IF toLowerCase(toToken) # toLowerCase(bridgeToken)
                 THEN <<SwapStep("swap", toChainId, bridgeToken, toToken,
                                 amount - bridgeFee, "OKX DEX")>>
                 ELSE <<>>
  IN [kind |-> "returned", fromChain |-> fromChainId, toChain |-> toChainId,
      bridgeProtocol |-> bridgeProtocol,
      estimatedTime |-> estimateBridgeTime(bridgeProtocol),
      bridgeFee |-> bridgeFee, steps |-> step1 \o step2 \o step3]

VARIABLES
  xpc,     \* idle, quote (the DEX quote of a same-chain request is awaited), done
  xargs,   \* the arguments of findBestCrossChainRoute
  xroute   \* the CrossChainRoute returned, or the rejection

xvars == <<xpc, xargs, xroute>>

NoRouteArgs == [fromChainId |-> 0, toChainId |-> 0, fromToken |-> "", toToken |-> "",
                amount |-> 0]
NoRoute == [kind |-> "none", fromChain |-> 0, toChain |-> 0, bridgeProtocol |-> "",
            estimatedTime |-> 0, bridgeFee |-> 0, steps |-> <<>>]

RouteInit ==
  /\ xpc = "idle"
  /\ xargs = NoRouteArgs
  /\ xroute = NoRoute

\* findBestCrossChainRoute (50-94): a same-chain request first awaits the DEX quote;
\* any other goes to calculateCrossChainRoute.
findBestCrossChainRoute(fromChainId, toChainId, fromToken, toToken, amount) ==
  /\ xpc = "idle"
  /\ xargs' = [fromChainId |-> fromChainId, toChainId |-> toChainId,
               fromToken |-> fromToken, toToken |-> toToken, amount |-> amount]
  /\ IF fromChainId = toChainId
       THEN xpc' = "quote" /\ UNCHANGED xroute
       ELSE /\ xpc' = "done"
            /\ xroute' = calculateCrossChainRoute(fromChainId, toChainId, fromToken,
                                                  toToken, amount)

\* dexApi.getQuote answered (59-66): its rejection is the call's; otherwise the
\* single-swap route is returned (68-83), the quote itself unused.
DexQuoteAnswered(ok) ==
  /\ xpc = "quote"
  /\ xpc' = "done"
  /\ xroute' =
       IF ok
         THEN [kind |-> "returned", fromChain |-> xargs.fromChainId,
               toChain |-> xargs.toChainId, bridgeProtocol |-> "none",
               estimatedTime |-> 30, bridgeFee |-> 0,
               steps |-> <<SwapStep("swap", xargs.fromChainId, xargs.fromToken,
                                    xargs.toToken, xargs.amount, "undefined")>>]
         ELSE [NoRoute EXCEPT !.kind = "threw"]
  /\ UNCHANGED xargs

\* ======================================================= transaction history
\* useTransactionHistory (part_001): the hook's transactions state, its saved copy
\* in localStorage, and the operations that write them. A hash is a number: 1..99
\* are transactions on chain (one is mined at each time unit and carries the time as
\* its hash), 101.. user-operation hashes, 201.. the transaction hashes their
\* receipts carry.
MaxTracked == 1
MaxHistoryNow == 75

HistoryCap == 50
OnChainBatch == 20

\* How far back a refresh asks for logs (fromBlock = latestBlock - 1000n, 136), in
\* time units; also how much time passes between two looks at the clock.
BlockWindow == 25

Transaction(hash, timestamp, status) ==
  [hash |-> hash, timestamp |-> timestamp, status |-> status]

VARIABLES
  txs,       \* the transactions state of the hook
  txstored,  \* localStorage[oneclick_defi_transactions_<account>]
  tnow,      \* Date.now()
  tpending,  \* user-operation hashes whose receipt is still awaited
  tlastop    \* the latest operation and the transaction it added (observation only)

tvars == <<txs, txstored, tnow, tpending, tlastop>>

NoHistoryOp == [op |-> "none", tx |-> Transaction(0, 0, "")]

TxHistoryInit ==
  /\ txs = <<>>
  /\ txstored = <<>>
  /\ tnow = BlockWindow
  /\ tpending = {}
  /\ tlastop = NoHistoryOp

TxTick ==
  /\ tnow < MaxHistoryNow
  /\ tnow' = tnow + BlockWindow
  /\ UNCHANGED <<txs, txstored, tpending, tlastop>>

\* addTransaction (61-67): the new one first, the first 50 kept, the result saved.
addTransaction(tx) ==
  LET updated == SubSeq(<<tx>> \o txs, 1, IF Len(txs) + 1 < HistoryCap
                                            THEN Len(txs) + 1 ELSE HistoryCap)
  IN /\ txs' = updated
     /\ txstored' = updated

\* updateTransaction (70-78): every entry with the hash takes the updates; saved.
updateTransaction(hash, status, newHash) ==
  LET updated == [i \in DOMAIN txs |->
                    IF txs[i].hash = hash
                      THEN [txs[i] EXCEPT !.status = status, !.hash = newHash]
                      ELSE txs[i]]
  IN /\ txs' = updated
     /\ txstored' = updated

\* trackUserOperation (81-102): the pending Transaction is added under the
\* operation hash; the wait for its receipt starts.
trackUserOperation(opHash) ==
  /\ opHash \notin tpending
  /\ \A i \in DOMAIN txs : txs[i].hash \notin {opHash, opHash + 100}
  /\ addTransaction(Transaction(opHash, tnow, "pending"))
  /\ tpending' = tpending \cup {opHash}
  /\ tlastop' = [op |-> "add", tx |-> Transaction(opHash, tnow, "pending")]
  /\ UNCHANGED tnow

\* trackUserOperation (105-120): the wait ended with a receipt (status by its
\* success flag, hash replaced by the receipt's) or threw (status failed).
TrackSettled(opHash, outcome) ==
  /\ opHash \in tpending
  /\ tpending' = tpending \ {opHash}
  /\ IF outcome = "threw" THEN updateTransaction(opHash, "failed", opHash)
     ELSE updateTransaction(opHash, outcome, opHash + 100)
  /\ tlastop' = [op |-> "update", tx |-> NoHistoryOp.tx]
  /\ UNCHANGED tnow

\* fetchOnChainHistory (124-184). When the client is created and the reads answer,
\* the first 20 logs of the window become transactions; those whose hash the list
\* lacks are appended and the list is sorted by timestamp, newest first (169-178).
\* Nothing is saved. When createPublicClient throws (the imported xlayer chain is
\* undefined and http() is given no URL) or a read rejects, the catch (179-180)
\* leaves the list as it is.
fetchOnChainHistory(readOk) ==
  /\ LET fromBlock == tnow - BlockWindow + 1
         validTxs == [i \in 1..OnChainBatch |->
                        Transaction(fromBlock + i - 1, fromBlock + i - 1, "success")]
         existingHashes == {txs[i].hash : i \in DOMAIN txs}
         newTxs == SelectSeq(validTxs, LAMBDA tx : tx.hash \notin existingHashes)
     IN txs' = IF readOk THEN SortNewestFirst(txs \o newTxs) ELSE txs
  /\ tlastop' = [op |-> IF readOk THEN "fetch" ELSE "fetch failed", tx |-> NoHistoryOp.tx]
  /\ UNCHANGED <<txstored, tnow, tpending>>

\* ============================================================== session keys
\* SessionKeyManager (lib/advanced/session-keys.ts) and its localStorage entry
\* 'oneclick_defi_session_keys'. Times are in seconds.
MaxSessionKeys == 3
MaxSessionNow == 3

SessionAccounts == {"0xAcc1", "0xAcc2"}
ValidityDurations == {0, 2}
\* config.spendingLimit: a bigint as the interface declares it, or a plain number
\* handed over by an untyped caller.
SpendingLimits == {[type |-> "bigint", value |-> 100], [type |-> "number", value |-> 100]}

SessionKeyAddress(n) == <<"sessionKey", n>>

CannotSerializeBigInt == <<"Do", "not", "know", "how", "to", "serialize", "a", "BigInt">>

\* JSON.stringify of the keys record: it throws a TypeError when a value in it is a
\* bigint.
JsonStringifies(keys) ==
  \A a \in DOMAIN keys : keys[a].stored => keys[a].spendingLimit.type # "bigint"

VARIABLES
  sstore,     \* localStorage['oneclick_defi_session_keys']: account -> stored key
  snow,       \* Math.floor(Date.now() / 1000)
  sissued,    \* how many key pairs were generated
  slast       \* the latest call: what was asked, the store before it, what it gave (observation only)

svars == <<sstore, snow, sissued, slast>>

NoKey == [stored |-> FALSE, address |-> <<"none", 0>>, validUntil |-> 0,
          spendingLimit |-> [type |-> "number", value |-> 0]]
NoSessionCall ==
  [op |-> "none", account |-> "", key |-> NoKey, now |-> 0,
   before |-> [a \in SessionAccounts |-> NoKey], threw |-> <<>>, answer |-> FALSE]

SessionInit ==
  /\ sstore = [a \in SessionAccounts |-> NoKey]
  /\ snow = 0
  /\ sissued = 0
  /\ slast = NoSessionCall

SessionTick ==
  /\ snow < MaxSessionNow
  /\ snow' = snow + 1
  /\ UNCHANGED <<sstore, sissued, slast>>

\* storeSessionKey (124-131): the parsed record gets the key under the account;
\* localStorage is written with its JSON text, or stays as it is when stringify
\* throws.
storeSessionKey(keys, accountAddress, sessionKey) ==
  LET updated == [keys EXCEPT ![accountAddress] = sessionKey]
  IN IF JsonStringifies(updated) THEN updated ELSE keys

\* createSessionKey (25-47): a fresh key pair, validUntil from the clock, the key
\* stored, then returned; a throw of storeSessionKey rejects the call.
createSessionKey(accountAddress, validityDuration, spendingLimit) ==
  /\ sissued < MaxSessionKeys
  /\ sissued' = sissued + 1
  /\ LET sessionKey == [stored |-> TRUE, address |-> SessionKeyAddress(sissued + 1),
                        validUntil |-> snow + validityDuration,
                        spendingLimit |-> spendingLimit]
         written == [sstore EXCEPT ![accountAddress] = sessionKey]
     IN /\ sstore' = storeSessionKey(sstore, accountAddress, sessionKey)
        /\ slast' = [NoSessionCall EXCEPT
                       !.op = "create", !.account = accountAddress, !.key = sessionKey,
                       !.now = snow, !.before = sstore,
                       !.threw = IF JsonStringifies(written) THEN <<>>
                                 ELSE CannotSerializeBigInt]
  /\ UNCHANGED snow

\* revokeSessionKey (165-171)
revokeSessionKey(accountAddress, sessionKeyAddress) ==
  /\ sstore' = IF sstore[accountAddress].stored
                    /\ sstore[accountAddress].address = sessionKeyAddress
                 THEN [sstore EXCEPT ![accountAddress] = NoKey]
                 ELSE sstore
  /\ slast' = [NoSessionCall EXCEPT
                 !.op = "revoke", !.account = accountAddress,
                 !.key = [NoKey EXCEPT !.address = sessionKeyAddress],
                 !.now = snow, !.before = sstore]
  /\ UNCHANGED <<snow, sissued>>

\* isSessionKeyValid (158-160) on a key createSessionKey returned.
isSessionKeyValid(accountAddress) ==
  /\ sstore[accountAddress].stored
  /\ slast' = [NoSessionCall EXCEPT
                 !.op = "valid", !.account = accountAddress,
                 !.key = sstore[accountAddress], !.now = snow, !.before = sstore,
                 !.answer = snow < sstore[accountAddress].validUntil]
  /\ UNCHANGED <<sstore, snow, sissued>>

\* ---------------------------------------------------------- specification
Next ==
  \/ \E c \in Calls, p \in Pairs, amount \in Amounts :
       ExecuteBridge(c, p, amount) /\ UNCHANGED <<gvars, rvars, hvars, avars, kvars, qvars, uvars, cvars, mvars, ovars, lvars, xvars, tvars, svars>>
  \/ \E c \in Calls : RealQuote(c) /\ UNCHANGED <<gvars, rvars, hvars, avars, kvars, qvars, uvars, cvars, mvars, ovars, lvars, xvars, tvars, svars>>
  \/ \E c \in Calls : RealBuild(c) /\ UNCHANGED <<gvars, rvars, hvars, avars, kvars, qvars, uvars, cvars, mvars, ovars, lvars, xvars, tvars, svars>>
  \/ \E c \in Calls : RealSubmit(c) /\ UNCHANGED <<gvars, rvars, hvars, avars, kvars, qvars, uvars, cvars, mvars, ovars, lvars, xvars, tvars, svars>>
  \/ \E c \in Calls : SimWallet(c) /\ UNCHANGED <<gvars, rvars, hvars, avars, kvars, qvars, uvars, cvars, mvars, ovars, lvars, xvars, tvars, svars>>
  \/ \E c \in Calls : SimBalance(c) /\ UNCHANGED <<gvars, rvars, hvars, avars, kvars, qvars, uvars, cvars, mvars, ovars, lvars, xvars, tvars, svars>>
  \/ \E c \in Calls : SimBurnToken(c) /\ UNCHANGED <<gvars, rvars, hvars, avars, kvars, qvars, uvars, cvars, mvars, ovars, lvars, xvars, tvars, svars>>
  \/ MintTimer /\ UNCHANGED <<gvars, rvars, hvars, avars, kvars, qvars, uvars, cvars, mvars, ovars, lvars, xvars, tvars, svars>>
  \/ MonitorPoll /\ UNCHANGED <<gvars, rvars, hvars, avars, kvars, qvars, uvars, cvars, mvars, ovars, lvars, xvars, tvars, svars>>

GaslessNext ==
  \/ \E g \in Ops, nonce \in Nonces, initCode \in InitCodes :
       GStart(g, nonce, initCode) /\ UNCHANGED <<bvars, rvars, hvars, avars, kvars, qvars, uvars, cvars, mvars, ovars, lvars, xvars, tvars, svars>>
  \/ \E g \in Ops : GEstimate(g) /\ UNCHANGED <<bvars, rvars, hvars, avars, kvars, qvars, uvars, cvars, mvars, ovars, lvars, xvars, tvars, svars>>
  \/ \E g \in Ops : GSponsor(g) /\ UNCHANGED <<bvars, rvars, hvars, avars, kvars, qvars, uvars, cvars, mvars, ovars, lvars, xvars, tvars, svars>>
  \/ \E g \in Ops : GConfirm(g) /\ UNCHANGED <<bvars, rvars, hvars, avars, kvars, qvars, uvars, cvars, mvars, ovars, lvars, xvars, tvars, svars>>
  \/ \E g \in Ops : GSign(g) /\ UNCHANGED <<bvars, rvars, hvars, avars, kvars, qvars, uvars, cvars, mvars, ovars, lvars, xvars, tvars, svars>>
  \/ \E g \in Ops : GSend(g) /\ UNCHANGED <<bvars, rvars, hvars, avars, kvars, qvars, uvars, cvars, mvars, ovars, lvars, xvars, tvars, svars>>

ReceiptNext ==
  \/ \E w \in Waiters : WStart(w) /\ UNCHANGED <<bvars, gvars, hvars, avars, kvars, qvars, uvars, cvars, mvars, ovars, lvars, xvars, tvars, svars>>
  \/ WPoll /\ UNCHANGED <<bvars, gvars, hvars, avars, kvars, qvars, uvars, cvars, mvars, ovars, lvars, xvars, tvars, svars>>
  \/ WExpire /\ UNCHANGED <<bvars, gvars, hvars, avars, kvars, qvars, uvars, cvars, mvars, ovars, lvars, xvars, tvars, svars>>

HashNext ==
  \/ \E op \in HashOps, f \in HashFields, ctx1, ctx2 \in HashContexts :
       HashInput(op, f, ctx1, ctx2) /\ UNCHANGED <<bvars, gvars, rvars, avars, kvars, qvars, uvars, cvars, mvars, ovars, lvars, xvars, tvars, svars>>
  \/ HashExecute /\ UNCHANGED <<bvars, gvars, rvars, avars, kvars, qvars, uvars, cvars, mvars, ovars, lvars, xvars, tvars, svars>>
  \/ HashEntryPointRead /\ UNCHANGED <<bvars, gvars, rvars, avars, kvars, qvars, uvars, cvars, mvars, ovars, lvars, xvars, tvars, svars>>
  \/ HashLocalFallback /\ UNCHANGED <<bvars, gvars, rvars, avars, kvars, qvars, uvars, cvars, mvars, ovars, lvars, xvars, tvars, svars>>

AddressInputs ==
  {[email |-> e, publicKey |-> k, accountIndex |-> i] :
     e \in Emails, k \in PublicKeys, i \in AccountIndices}

AddressNext ==
  \/ \E in1, in2 \in AddressInputs, st \in StoredAddresses :
       AddrInput(in1, in2, st) /\ UNCHANGED <<bvars, gvars, rvars, hvars, kvars, qvars, uvars, cvars, mvars, ovars, lvars, xvars, tvars, svars>>
  \/ DeriveCreateSmartAccount /\ UNCHANGED <<bvars, gvars, rvars, hvars, kvars, qvars, uvars, cvars, mvars, ovars, lvars, xvars, tvars, svars>>
  \/ \E readOk1, readOk2 \in BOOLEAN :
       DeriveFromFactory(readOk1, readOk2) /\ UNCHANGED <<bvars, gvars, rvars, hvars, kvars, qvars, uvars, cvars, mvars, ovars, lvars, xvars, tvars, svars>>
  \/ \E readOk1, readOk2 \in BOOLEAN :
       DeriveMultichain(readOk1, readOk2) /\ UNCHANGED <<bvars, gvars, rvars, hvars, kvars, qvars, uvars, cvars, mvars, ovars, lvars, xvars, tvars, svars>>
  \/ \E readOk1, readOk2 \in BOOLEAN :
       DeriveAccount(readOk1, readOk2) /\ UNCHANGED <<bvars, gvars, rvars, hvars, kvars, qvars, uvars, cvars, mvars, ovars, lvars, xvars, tvars, svars>>
  \/ BuildFirstOperation /\ UNCHANGED <<bvars, gvars, rvars, hvars, kvars, qvars, uvars, cvars, mvars, ovars, lvars, xvars, tvars, svars>>

BuildNext ==
  \/ \E email \in Emails, publicKey \in PublicKeys, chainState \in ChainStates :
       BuildInput(email, publicKey, chainState) /\ UNCHANGED <<bvars, gvars, rvars, hvars, avars, qvars, uvars, cvars, mvars, ovars, lvars, xvars, tvars, svars>>
  \/ \E codeRead, nonceRead \in ReadOutcomes :
       createSmartAccount(codeRead, nonceRead) /\ UNCHANGED <<bvars, gvars, rvars, hvars, avars, qvars, uvars, cvars, mvars, ovars, lvars, xvars, tvars, svars>>
  \/ ChainDeploys /\ UNCHANGED <<bvars, gvars, rvars, hvars, avars, qvars, uvars, cvars, mvars, ovars, lvars, xvars, tvars, svars>>
  \/ \E codeRead, nonceRead, gasRead \in ReadOutcomes :
       createUserOperation(codeRead, nonceRead, gasRead) /\ UNCHANGED <<bvars, gvars, rvars, hvars, avars, qvars, uvars, cvars, mvars, ovars, lvars, xvars, tvars, svars>>
  \/ createTransferUserOp /\ UNCHANGED <<bvars, gvars, rvars, hvars, avars, qvars, uvars, cvars, mvars, ovars, lvars, xvars, tvars, svars>>

QuoteNext ==
  \/ \E p \in QuotePairs, amount \in QuoteAmounts :
       GetQuote(p, amount) /\ UNCHANGED <<bvars, gvars, rvars, hvars, avars, kvars, uvars, cvars, mvars, ovars, lvars, xvars, tvars, svars>>
  \/ \E answer \in QuoteAnswers, permille \in LivePermille, bridgeId \in LiveBridgeIds :
       QuoteAnswer(answer, permille, bridgeId) /\ UNCHANGED <<bvars, gvars, rvars, hvars, avars, kvars, uvars, cvars, mvars, ovars, lvars, xvars, tvars, svars>>

HistoryNext ==
  \/ HistTick /\ UNCHANGED <<bvars, gvars, rvars, hvars, avars, kvars, qvars, cvars, mvars, ovars, lvars, xvars, tvars, svars>>
  \/ \E recipient \in Recipients :
       HistExecuteSim(recipient) /\ UNCHANGED <<bvars, gvars, rvars, hvars, avars, kvars, qvars, cvars, mvars, ovars, lvars, xvars, tvars, svars>>
  \/ \E recipient \in Recipients :
       HistExecuteReal(recipient) /\ UNCHANGED <<bvars, gvars, rvars, hvars, avars, kvars, qvars, cvars, mvars, ovars, lvars, xvars, tvars, svars>>
  \/ \E rec \in upending :
       HistRealReturned(rec) /\ UNCHANGED <<bvars, gvars, rvars, hvars, avars, kvars, qvars, cvars, mvars, ovars, lvars, xvars, tvars, svars>>
  \/ \E rec \in upending :
       HistRealFailed(rec) /\ UNCHANGED <<bvars, gvars, rvars, hvars, avars, kvars, qvars, cvars, mvars, ovars, lvars, xvars, tvars, svars>>
  \/ \E i \in 1..MaxHistoryCalls, status \in {"processing", "completed", "failed"} :
       HistSetStatus(i, status) /\ UNCHANGED <<bvars, gvars, rvars, hvars, avars, kvars, qvars, cvars, mvars, ovars, lvars, xvars, tvars, svars>>
  \/ \E userAddress \in UserAddresses :
       GetUserBridgeHistory(userAddress) /\ UNCHANGED <<bvars, gvars, rvars, hvars, avars, kvars, qvars, cvars, mvars, ovars, lvars, xvars, tvars, svars>>

\* executeBridge with step 3 of the real path as the code composes it. The status
\* monitor is started by executeRealBridge line 217 only, after the submission.
ComposedNext ==
  \/ \E c \in Calls, p \in Pairs, amount \in Amounts :
       ExecuteBridge(c, p, amount) /\ UNCHANGED <<gvars, rvars, hvars, avars, kvars, qvars, uvars, cvars, mvars, ovars, lvars, xvars, tvars, svars>>
  \/ \E c \in Calls : RealQuote(c) /\ UNCHANGED <<gvars, rvars, hvars, avars, kvars, qvars, uvars, cvars, mvars, ovars, lvars, xvars, tvars, svars>>
  \/ \E c \in Calls : RealBuild(c) /\ UNCHANGED <<gvars, rvars, hvars, avars, kvars, qvars, uvars, cvars, mvars, ovars, lvars, xvars, tvars, svars>>
  \/ \E c \in Calls : SubmitViaSmartAccount(c) /\ UNCHANGED <<gvars, rvars, hvars, avars, kvars, qvars, uvars, mvars, ovars, lvars, xvars, tvars, svars>>
  \/ \E c \in Calls : SimWallet(c) /\ UNCHANGED <<gvars, rvars, hvars, avars, kvars, qvars, uvars, cvars, mvars, ovars, lvars, xvars, tvars, svars>>
  \/ \E c \in Calls : SimBalance(c) /\ UNCHANGED <<gvars, rvars, hvars, avars, kvars, qvars, uvars, cvars, mvars, ovars, lvars, xvars, tvars, svars>>
  \/ \E c \in Calls : SimBurnToken(c) /\ UNCHANGED <<gvars, rvars, hvars, avars, kvars, qvars, uvars, cvars, mvars, ovars, lvars, xvars, tvars, svars>>
  \/ MintTimer /\ UNCHANGED <<gvars, rvars, hvars, avars, kvars, qvars, uvars, cvars, mvars, ovars, lvars, xvars, tvars, svars>>

MonitorNext ==
  \/ \E c \in Calls, p \in Pairs, amount \in Amounts :
       ExecuteBridge(c, p, amount) /\ UNCHANGED <<gvars, rvars, hvars, avars, kvars, qvars, uvars, cvars, mvars, ovars, lvars, xvars, tvars, svars>>
  \/ \E c \in Calls : RealQuote(c) /\ UNCHANGED <<gvars, rvars, hvars, avars, kvars, qvars, uvars, cvars, mvars, ovars, lvars, xvars, tvars, svars>>
  \/ \E c \in Calls : RealBuild(c) /\ UNCHANGED <<gvars, rvars, hvars, avars, kvars, qvars, uvars, cvars, mvars, ovars, lvars, xvars, tvars, svars>>
  \/ \E c \in Calls : RealSubmit(c) /\ UNCHANGED <<gvars, rvars, hvars, avars, kvars, qvars, uvars, cvars, mvars, ovars, lvars, xvars, tvars, svars>>
  \/ \E c \in Calls : SimWallet(c) /\ UNCHANGED <<gvars, rvars, hvars, avars, kvars, qvars, uvars, cvars, mvars, ovars, lvars, xvars, tvars, svars>>
  \/ \E c \in Calls : SimBalance(c) /\ UNCHANGED <<gvars, rvars, hvars, avars, kvars, qvars, uvars, cvars, mvars, ovars, lvars, xvars, tvars, svars>>
  \/ \E c \in Calls : SimBurnToken(c) /\ UNCHANGED <<gvars, rvars, hvars, avars, kvars, qvars, uvars, cvars, mvars, ovars, lvars, xvars, tvars, svars>>
  \/ MintTimer /\ UNCHANGED <<gvars, rvars, hvars, avars, kvars, qvars, uvars, cvars, mvars, ovars, lvars, xvars, tvars, svars>>
  \/ \E id \in AllIds, s \in StatusAnswers : ObservedPoll(id, s) /\ UNCHANGED <<gvars, rvars, hvars, avars, kvars, qvars, uvars, cvars, ovars, lvars, xvars, tvars, svars>>

UserOpWaitNext ==
  \/ \E configured \in BOOLEAN : WaitForUserOpStart(configured) /\ UNCHANGED <<bvars, gvars, rvars, hvars, avars, kvars, qvars, uvars, cvars, mvars, lvars, xvars, tvars, svars>>
  \/ \E latency \in Latencies, answer \in UserOpAnswers :
       WaitForUserOpRequest(latency, answer) /\ UNCHANGED <<bvars, gvars, rvars, hvars, avars, kvars, qvars, uvars, cvars, mvars, lvars, xvars, tvars, svars>>
  \/ WaitForUserOpTimeout /\ UNCHANGED <<bvars, gvars, rvars, hvars, avars, kvars, qvars, uvars, cvars, mvars, lvars, xvars, tvars, svars>>

RateLimitNext ==
  \/ RateTick /\ UNCHANGED <<bvars, gvars, rvars, hvars, avars, kvars, qvars, uvars, cvars, mvars, ovars, xvars, tvars, svars>>
  \/ \E identifier \in Identifiers, limit \in Limits, windowMs \in Windows :
       checkRateLimit(identifier, limit, windowMs) /\ UNCHANGED <<bvars, gvars, rvars, hvars, avars, kvars, qvars, uvars, cvars, mvars, ovars, xvars, tvars, svars>>

RouteNext ==
  \/ \E fromChainId, toChainId \in RouteChains, fromToken, toToken \in RouteTokens,
        amount \in RouteAmounts :
       findBestCrossChainRoute(fromChainId, toChainId, fromToken, toToken, amount)
         /\ UNCHANGED <<bvars, gvars, rvars, hvars, avars, kvars, qvars, uvars, cvars, mvars, ovars, lvars, tvars, svars>>
  \/ \E ok \in BOOLEAN : DexQuoteAnswered(ok) /\ UNCHANGED <<bvars, gvars, rvars, hvars, avars, kvars, qvars, uvars, cvars, mvars, ovars, lvars, tvars, svars>>

TxHistoryNext ==
  \/ TxTick /\ UNCHANGED <<bvars, gvars, rvars, hvars, avars, kvars, qvars, uvars, cvars, mvars, ovars, lvars, xvars, svars>>
  \/ \E k \in 1..MaxTracked : trackUserOperation(100 + k) /\ UNCHANGED <<bvars, gvars, rvars, hvars, avars, kvars, qvars, uvars, cvars, mvars, ovars, lvars, xvars, svars>>
  \/ \E k \in 1..MaxTracked, outcome \in {"success", "failed", "threw"} :
       TrackSettled(100 + k, outcome) /\ UNCHANGED <<bvars, gvars, rvars, hvars, avars, kvars, qvars, uvars, cvars, mvars, ovars, lvars, xvars, svars>>
  \/ \E readOk \in BOOLEAN : fetchOnChainHistory(readOk) /\ UNCHANGED <<bvars, gvars, rvars, hvars, avars, kvars, qvars, uvars, cvars, mvars, ovars, lvars, xvars, svars>>

SessionNext ==
  \/ SessionTick /\ UNCHANGED <<bvars, gvars, rvars, hvars, avars, kvars, qvars, uvars, cvars, mvars, ovars, lvars, xvars, tvars>>
  \/ \E accountAddress \in SessionAccounts, validityDuration \in ValidityDurations,
        spendingLimit \in SpendingLimits :
       createSessionKey(accountAddress, validityDuration, spendingLimit)
         /\ UNCHANGED <<bvars, gvars, rvars, hvars, avars, kvars, qvars, uvars, cvars, mvars, ovars, lvars, xvars, tvars>>
  \/ \E accountAddress \in SessionAccounts, n \in 1..MaxSessionKeys :
       revokeSessionKey(accountAddress, SessionKeyAddress(n)) /\ UNCHANGED <<bvars, gvars, rvars, hvars, avars, kvars, qvars, uvars, cvars, mvars, ovars, lvars, xvars, tvars>>
  \/ \E accountAddress \in SessionAccounts :
       isSessionKeyValid(accountAddress) /\ UNCHANGED <<bvars, gvars, rvars, hvars, avars, kvars, qvars, uvars, cvars, mvars, ovars, lvars, xvars, tvars>>

vars == <<bvars, gvars, rvars, hvars, avars, kvars, qvars, uvars, cvars, mvars, ovars, lvars, xvars, tvars, svars>>

Init ==
  /\ BridgeInit
  /\ GaslessInit
  /\ ReceiptInit
  /\ HashInit
  /\ AddressInit
  /\ BuildInit
  /\ QuoteInit
  /\ HistoryInit
  /\ ComposeInit
  /\ MonitorInit
  /\ UserOpWaitInit
  /\ RateLimitInit
  /\ RouteInit
  /\ TxHistoryInit
  /\ SessionInit

\* The bridge orchestrator.
Spec == Init /\ [][Next]_vars

\* The bridge orchestrator when every scheduled timer fires and the aggregator's
\* status endpoint eventually answers with a terminal status.
FairSpec ==
  /\ Init /\ [][Next]_vars
  /\ WF_vars(MintTimer /\ UNCHANGED <<gvars, rvars, hvars, avars, kvars, qvars, uvars, cvars, mvars, ovars, lvars, xvars, tvars, svars>>)
  /\ WF_vars(MonitorPoll /\ UNCHANGED <<gvars, rvars, hvars, avars, kvars, qvars, uvars, cvars, mvars, ovars, lvars, xvars, tvars, svars>>)
  /\ \A id \in AllIds :
       SF_vars((\E s \in Terminal : CheckStatus(id, s)) /\ UNCHANGED <<gvars, rvars, hvars, avars, kvars, qvars, uvars, cvars, mvars, ovars, lvars, xvars, tvars, svars>>)

\* One or more executeGaslessOperation calls.
GaslessSpec == Init /\ [][GaslessNext]_vars

\* Two derivations of a smart-account address.
AddressSpec == Init /\ [][AddressNext]_vars

\* The hash functions applied to a pair of operations.
HashSpec == Init /\ [][HashNext]_vars

\* One wait for a user operation's receipt.
ReceiptSpec == Init /\ [][ReceiptNext]_vars

\* The bridge orchestrator when every scheduled timer fires, whatever the
\* aggregator's status endpoint answers.
TimerSpec ==
  /\ Init /\ [][Next]_vars
  /\ WF_vars(MintTimer /\ UNCHANGED <<gvars, rvars, hvars, avars, kvars, qvars, uvars, cvars, mvars, ovars, lvars, xvars, tvars, svars>>)
  /\ WF_vars(MonitorPoll /\ UNCHANGED <<gvars, rvars, hvars, avars, kvars, qvars, uvars, cvars, mvars, ovars, lvars, xvars, tvars, svars>>)

\* An account object is created and up to MaxBuilds operations are built for it.
BuildSpec == Init /\ [][BuildNext]_vars

\* Up to MaxQuotes getQuote calls, one after the other.
QuoteSpec == Init /\ [][QuoteNext]_vars

\* executeBridge calls as the registry sees them, and history queries.
HistorySpec == Init /\ [][HistoryNext]_vars

\* The bridge orchestrator with the smart-account submission as the code composes it.
ComposedSpec == Init /\ [][ComposedNext]_vars

\* The bridge orchestrator, each status request observed.
MonitorSpec == Init /\ [][MonitorNext]_vars

\* One waitForUserOp call.
UserOpWaitSpec == Init /\ [][UserOpWaitNext]_vars

\* Calls of checkRateLimit as time passes.
RateLimitSpec == Init /\ [][RateLimitNext]_vars

\* One findBestCrossChainRoute call.
RouteSpec == Init /\ [][RouteNext]_vars

\* The transaction history hook of one account.
TxHistorySpec == Init /\ [][TxHistoryNext]_vars

\* One SessionKeyManager over the browser's localStorage.
SessionSpec == Init /\ [][SessionNext]_vars


\* ================================================================== claims
Has(reg, id) ==
  IF reg = "bridge" THEN id \in DOMAIN transactions ELSE id \in DOMAIN realTransactions
Known(id) == Has("bridge", id) \/ Has("real", id)

\* C1: a record that is 'completed' or 'failed', in either registry, keeps that status
\* in every later step: no executeBridge step, mint timer or monitor poll changes it.
C1_TerminalIsFinal ==
  [][\A id \in AllIds :
       /\ (Has("bridge", id) /\ transactions[id].status \in Terminal)
            => (id \in DOMAIN transactions'
                /\ transactions'[id].status = transactions[id].status)
       /\ (Has("real", id) /\ realTransactions[id].status \in Terminal)
            => (id \in DOMAIN realTransactions'
                /\ realTransactions'[id].status = realTransactions[id].status)]_vars

\* C1 witness: the monitor has completed a real record and a mint callback has failed
\* a simulated one, with the other call's steps still interleaving.
C1_Witness ==
  /\ \E r \in DOMAIN realTransactions :
       realTransactions[r].status = "completed" /\ hist[r].dest = "done"
  /\ \E x \in DOMAIN transactions :
       transactions[x].status = "failed" /\ hist[x].dest = "failed"

\* One step of one record of one registry, as C2 allows it. reported: whether a
\* 'failed' answer of the aggregator's status endpoint counts as a reason to fail.
AllowedChange(old, new, h, reported) ==
  \/ old = new
  \/ old = "pending" /\ new = "processing" /\ h.sourceHash # NoHash
  \/ old = "processing" /\ new = "completed" /\ h.dest = "done"
  \/ old \in {"pending", "processing"} /\ new = "failed"
       /\ (h.threw \/ (reported /\ h.dest = "failed"))

C3_InsufficientBalanceFailsFast ==
  \A c \in Calls :
    hist[SimId(c)].lowBalance =>
      /\ result[c].kind = "threw"
      /\ hist[SimId(c)].sourceHash = NoHash
      /\ (SimId(c) \in DOMAIN transactions => transactions[SimId(c)].status = "failed")

C6_SimulationOnlyForUnsupported ==
  \A c \in Calls :
    /\ SimId(c) \in DOMAIN transactions => ~IsRealBridge(args[c].pair)
    /\ hist[RealId(c)].threw => result[c].kind # "returned"


\* ---------------------------------------------------------- gasless claims
Count(log, what) == Cardinality({i \in 1..Len(log) : log[i] = what})
IsPrefix(a, b) == Len(a) <= Len(b) /\ \A i \in 1..Len(a) : a[i] = b[i]
StepOrder == <<"estimate", "sponsor", "hash", "confirm", "sign", "send">>

\* C7: when the paymaster rejected for lack of deposit, the caller gets the
\* paymaster-funds error (the one sponsorUserOperation throws for that case), and
\* nothing was sent to the bundler.
C7_PaymasterFundsErrorSurfaces ==
  \A g \in Ops :
    gcause[g] = "paymaster_funds" =>
      /\ gresult[g].kind = "threw"
      /\ gresult[g].message = PaymasterFundsError
      /\ Count(glog[g], "send") = 0

C11_TimeoutWithinOneInterval ==
  (wpc = "done" /\ ~wreceipt.got) =>
    /\ wnow >= waiter.timeout
    /\ wnow <= waiter.timeout + PollInterval
    /\ (waiter.caller = "direct" =>
          wresult = [kind |-> "threw", message |-> ReceiptTimeoutError])

\* C12: after a wait that timed out (no receipt was obtained) the operation is neither
\* recorded as failed in the history nor reported with the on-chain failure error.
C12_TimeoutIsNotFailure ==
  (wpc = "done" /\ ~wreceipt.got) =>
    /\ tracked.status # "failed"
    /\ wresult.message # FailedOnChain

\* C13: an operation is reported as success only with a receipt whose success flag is
\* true; a receipt whose flag is false is reported as failed; while no receipt has been
\* obtained the accepted operation is 'pending'.
C13_SuccessOnlyWithReceipt ==
  /\ tracked.status = "success" => (wreceipt.got /\ wreceipt.success)
  /\ (waiter.caller = "waitForTransaction" /\ wresult.kind = "returned") =>
       (wreceipt.got /\ wreceipt.success)
  /\ (wreceipt.got /\ ~wreceipt.success) =>
       /\ waiter.caller = "trackUserOperation" => tracked.status = "failed"
       /\ waiter.caller = "waitForTransaction" =>
            wresult = [kind |-> "threw", message |-> FailedOnChain]
  /\ (waiter.caller = "trackUserOperation" /\ wpc = "polling") => tracked.status = "pending"

\* C13 witness: a tracked operation's receipt came back, after at least one empty
\* poll, with success = false.
C13_Witness ==
  /\ waiter.caller = "trackUserOperation"
  /\ wreceipt.got /\ ~wreceipt.success
  /\ wprev # -1
  /\ tracked.status = "failed"

Owner(id) == id[2]
RecordChanged(old, new, id) ==
  \/ (id \in DOMAIN old) # (id \in DOMAIN new)
  \/ id \in DOMAIN old /\ id \in DOMAIN new /\ old[id] # new[id]
OwnStep(id) ==
  \/ pc'[Owner(id)] # pc[Owner(id)]
  \/ id \in mintTimers /\ id \notin mintTimers'
  \/ id \in DOMAIN monitorTimers /\ monitorTimers' # monitorTimers

\* C15: with the steps and timers of the calls interleaved in any order, a record
\* stays in the registry under its own id, with the transfer it was created for, and
\* a record is created or changed only by a step or timer of the call that owns it.
C15_RegistryNotCorrupted ==
  [][\A id \in AllIds :
       /\ (RecordChanged(transactions, transactions', id)
             \/ RecordChanged(realTransactions, realTransactions', id)) => OwnStep(id)
       /\ id \in DOMAIN transactions =>
            /\ id \in DOMAIN transactions'
            /\ transactions'[id].id = id
            /\ transactions'[id].fromToken = transactions[id].fromToken
            /\ transactions'[id].toNetwork = transactions[id].toNetwork
            /\ transactions'[id].amount = transactions[id].amount
       /\ \A c \in Calls :
            result'[c].kind = "returned" => getBridgeStatus(result[c].id)'.id = result'[c].id]_vars

\* C15 witness: two calls ran interleaved; the record of the one is terminal while
\* the other's is still waiting for its timer; the two are transfers of different pairs.
C15_Witness ==
  \E x, y \in DOMAIN transactions :
    /\ Owner(x) # Owner(y)
    /\ transactions[x].status \in Terminal
    /\ transactions[y].status = "processing" /\ y \in mintTimers
    /\ transactions[x].fromNetwork # transactions[y].fromNetwork

\* ---------------------------------------------------------- hashing claims
SameContext == hctx[1] = hctx[2]
Hashed == hpc \in {"execute", "entryPointRead", "localFallback"}

\* C16: on every code path that computes the hash to be signed, the same operation
\* hashed for two entry points, or for two chains, gets two different hashes.
C16_HashBoundToChainAndEntryPoint ==
  (Hashed /\ hfield = "none" /\ ~SameContext) => hhash[1] # hhash[2]

\* C17: getUserOpHash (execute.ts) gives different hashes to two operations that
\* differ in callData, in nonce or in one of the five gas and fee fields, for the same
\* entry point and chain.
C17_HashSensitiveToEveryField ==
  (hpc = "execute" /\ SameContext
     /\ hfield \in {"callData", "nonce", "callGasLimit", "verificationGasLimit",
                    "preVerificationGas", "maxFeePerGas", "maxPriorityFeePerGas"})
    => hhash[1] # hhash[2]

\* C17 witness: two operations that differ only in maxPriorityFeePerGas were hashed.
C17_Witness ==
  /\ hpc = "execute" /\ SameContext /\ hfield = "maxPriorityFeePerGas"
  /\ hop[1].maxPriorityFeePerGas # hop[2].maxPriorityFeePerGas
  /\ hhash[1] # NoHash

\* C18: getUserOpHash (execute.ts) gives the same hash to the same field values hashed
\* twice, and to two operations that differ only in their signature.
C18_HashIgnoresSignature ==
  (hpc = "execute" /\ SameContext /\ hfield \in {"none", "signature"})
    => hhash[1] = hhash[2]

\* C18 witness: an unsigned operation and its signed copy were hashed.
C18_Witness ==
  /\ hpc = "execute" /\ SameContext /\ hfield = "signature"
  /\ hop[1].signature # hop[2].signature
  /\ hop[1].paymasterAndData = "0xpm"
  /\ hhash[1] # NoHash

\* ---------------------------------------------------------- address claims
Derived ==
  apc \in {"createSmartAccount", "calculateSmartAccountAddress", "multichain", "account"}

\* C19: two derivations for the same (email, publicKey, accountIndex) give the same
\* address, whatever was stored locally and whether or not the factory read of each
\* succeeded.
C19_DerivationDeterministic ==
  (Derived /\ ain[1] = ain[2]) => aout[1] = aout[2]

\* C20: for one email, two derivations that differ in the account index only, or in
\* the public key only, give two different addresses; createSmartAccount included.
C20_DistinctIndexDistinctAddress ==
  (Derived /\ aout[1].kind = "address" /\ aout[2].kind = "address"
     /\ ain[1].email = ain[2].email
     /\ \/ /\ ain[1].accountIndex # ain[2].accountIndex
           /\ ain[1].publicKey = ain[2].publicKey
        \/ /\ PublicKeyHex(ain[1].publicKey) # PublicKeyHex(ain[2].publicKey)
           /\ ain[1].accountIndex = ain[2].accountIndex)
    => aout[1].address # aout[2].address

\* C21: whenever calculateSmartAccountAddress returns, the address is the one the
\* factory's getAddress answers for the normalized key and the salt; in particular
\* the address computed locally after a failed factory read is that address.
C21_FallbackEqualsFactory ==
  apc = "calculateSmartAccountAddress" =>
    \A i \in {1, 2} :
      aout[i] = FactoryGetAddress(FACTORY_ADDRESS, PublicKeyHex(ain[i].publicKey),
                  calculateSalt(ain[i].email, ain[i].publicKey, ain[i].accountIndex))

\* The salt the address of derivation i was computed from, by the module that
\* derived it; createSmartAccount's fixed address comes from no salt.
DerivationSalt(i) ==
  IF apc = "calculateSmartAccountAddress"
    THEN calculateSalt(ain[i].email, ain[i].publicKey, ain[i].accountIndex)
  ELSE IF apc = "multichain"
    THEN MultichainSalt(ain[i].email, ain[i].publicKey, ain[i].accountIndex)
  ELSE IF apc = "account" THEN AccountSalt(ain[i].email, ain[i].publicKey)
  ELSE <<"none">>

\* C31: for every account derived from a salt, by the factory, account or
\* multichain module, the salt encoded in the initCode of its built operation is
\* the salt its address was derived from.
C31_InitCodeSaltIsDerivationSalt ==
  (apc \in {"calculateSmartAccountAddress", "multichain", "account"} /\ ainit # <<>>) =>
    \A i \in {1, 2} :
      aout[i].kind = "address" => ainit[i][4] = DerivationSalt(i)

\* ------------------------------------------------------------ build claims
\* C22: every built operation has empty initCode exactly when the account is
\* deployed on chain at the build; for an undeployed account initCode is the
\* factory address followed by the createAccount call for the account's key, and
\* two builds by the same builder for the account while it is undeployed carry the
\* same initCode.
C22_InitCodeExactlyWhenUndeployed ==
  /\ \A i \in DOMAIN builds :
       builds[i].kind = "op" =>
         /\ (builds[i].initCode = EmptyCode) <=> builds[i].chainDeployed
         /\ ~builds[i].chainDeployed =>
              /\ builds[i].initCode[1] = FACTORY_ADDRESS
              /\ builds[i].initCode[2] = "createAccount"
              /\ builds[i].initCode[3] = PublicKeyHex(account.publicKey)
  /\ \A i, j \in DOMAIN builds :
       (/\ builds[i].kind = "op" /\ builds[j].kind = "op"
        /\ builds[i].by = builds[j].by
        /\ ~builds[i].chainDeployed /\ ~builds[j].chainDeployed)
         => builds[i].initCode = builds[j].initCode

\* C23: a derivation from a malformed public key (empty, wrong length,
\* unparseable) fails: it returns no address, and the salt function it uses returns
\* no salt for that key.
C23_MalformedKeyFails ==
  apc \in {"calculateSmartAccountAddress", "multichain", "account"} =>
    \A i \in {1, 2} :
      ain[i].publicKey \in MalformedKeys =>
        /\ aout[i].kind = "threw"
        /\ apc = "calculateSmartAccountAddress" =>
             calculateSalt(ain[i].email, ain[i].publicKey, ain[i].accountIndex) = <<"threw">>
        /\ apc = "account" => AccountSalt(ain[i].email, ain[i].publicKey) = <<"threw">>

\* ------------------------------------------------------------ quote claims
IsFallback(quote) == quote.route[1] = "Fallback"

\* C24: for a pair of BRIDGE_PAIRS, when the quote request does not bring a live
\* quote (endpoint unreachable, or any failed answer), getQuote returns the
\* fallback quote: destination amount = amount less 0.5% (to the sixth decimal),
\* fee 0.5%, marked as a fallback by its route; a live quote is never so marked.
C24_FallbackQuoteWhenUnreachable ==
  (qpc = "returned" /\ qargs.pair \in BRIDGE_PAIRS) =>
    /\ qresult.kind = "quote"
    /\ qanswer # "live" =>
         /\ IsFallback(qresult)
         /\ qresult.fromAmount = qargs.amount
         /\ qresult.toAmount = ToFixed6(qargs.amount, 995)
         /\ qargs.amount = 1000000 => qresult.toAmount = 995000
         /\ qresult.fees = ToFixed6(qargs.amount, 5)
    /\ qanswer = "live" => ~IsFallback(qresult)

\* Witness: the request for sepolia ETH -> xlayer OKB, amount 1.0, was sent, the
\* endpoint was unreachable, and getQuote returned 0.995 marked as a fallback.
C24_Witness ==
  /\ qpc = "returned"
  /\ qargs = [pair |-> Pair("sepolia", "ETH", "xlayer", "OKB"), amount |-> 1000000]
  /\ qanswer = "unreachable"
  /\ qfetches = 1
  /\ qresult.toAmount = 995000
  /\ IsFallback(qresult)

\* C25: getQuote for a pair that is not in BRIDGE_PAIRS returns no quote: it is
\* rejected with an error, and no request was sent for it.
C25_UnsupportedPairRejected ==
  (qpc = "returned" /\ qargs.pair \notin BRIDGE_PAIRS) =>
    /\ qresult.kind = "threw"
    /\ qfetches = 0

\* ------------------------------------------------------- estimation claims
\* C26: estimateUserOperationGas never fails: no executeGaslessOperation call ends
\* with an error that came out of the gas estimation step.
C26_EstimateNeverFails ==
  \A g \in Ops : ~(gpc[g] = "threw" /\ gcause[g] = "estimate")

\* ------------------------------------------------------ chain-read claims
\* C27: a build during which the deployed-state read or the nonce read failed ends
\* with an error (no operation is returned), and createSmartAccount returns no
\* account object when one of its two reads failed.
C27_ReadFailurePropagates ==
  /\ \A i \in DOMAIN builds :
       (builds[i].codeRead = "error" \/ builds[i].nonceRead = "error")
         => builds[i].kind = "threw"
  /\ kpc = "account" => (creads.code # "error" /\ creads.nonce # "error")

\* ---------------------------------------------------------- history claims
Range(seq) == {seq[i] : i \in DOMAIN seq}

\* C28: what getUserBridgeHistory(userAddress) returned is exactly the registry's
\* records whose recipient is userAddress up to letter case, each once, ordered by
\* timestamp from the newest to the oldest.
C28_HistoryExactAndNewestFirst ==
  uhistory.asked =>
    /\ Range(uhistory.list) =
         {tx \in Range(utransactions) :
            toLowerCase(tx.recipient) = toLowerCase(uhistory.user)}
    /\ \A i, j \in DOMAIN uhistory.list :
         /\ i < j => uhistory.list[i].timestamp >= uhistory.list[j].timestamp
         /\ i # j => uhistory.list[i].id # uhistory.list[j].id

\* Witness: a query for the lower-case spelling returned two records stored under
\* the checksummed spelling, the newer one first, while the registry lists the
\* older one first.
C28_Witness ==
  /\ uhistory.asked
  /\ uhistory.user = "0xabc1"
  /\ Len(uhistory.list) = 2
  /\ uhistory.list[1].recipient = "0xAbC1"
  /\ uhistory.list[1].timestamp > uhistory.list[2].timestamp
  /\ utransactions[1] = uhistory.list[2]

\* ------------------------------------------------------ composition claims
\* C29: when a call for a pair of the real bridge got a live quote, a built
\* transaction and a submission that met no failing service, no simulated record
\* exists for it, and once it has returned its caller holds the real record:
\* 'processing', txHash = the submitted operation's hash.
C29_RealPathWhenAllSucceed ==
  \A c \in Calls :
    (/\ IsRealBridge(args[c].pair)
     /\ csubmit[c].attempted /\ csubmit[c].failures = {}
     /\ realTransactions[RealId(c)].bridgeId = "okx")
      => /\ SimId(c) \notin DOMAIN transactions
         /\ pc[c] = "returned" =>
              /\ result[c].id = RealId(c)
              /\ result[c].status = "processing"
              /\ result[c].txHash = RealTxHash(c)

\* C30: a call whose quote was the static fallback (bridgeId 'fallback_...') gets
\* no further: no build-transaction answer is waited for or used, and no
\* smart-account submission is attempted for it.
C30_NoBuildOnFallbackQuote ==
  \A c \in Calls :
    (RealId(c) \in DOMAIN realTransactions
       /\ realTransactions[RealId(c)].bridgeId = "fallback_")
      => /\ pc[c] \notin {"real_build", "real_submit"}
         /\ ~csubmit[c].attempted

\* ---------------------------------------------------------- monitor claims
\* C32: once a status request for a transaction was answered 'completed' or
\* 'failed', no timer is pending for it (so no further request is issued); after a
\* non-terminal answer the next request is scheduled 30 seconds later, and after a
\* failed request 60 seconds later.
C32_MonitorStopsOnTerminal ==
  /\ [](\A id \in AllIds :
          /\ polled[id] \in Terminal => id \notin DOMAIN monitorTimers
          /\ polled[id] = "pending" =>
               (id \in DOMAIN monitorTimers /\ monitorTimers[id] = 30000)
          /\ polled[id] = "error" =>
               (id \in DOMAIN monitorTimers /\ monitorTimers[id] = 60000))
  /\ [][\A id \in AllIds : polled[id] \in Terminal => polled'[id] = polled[id]]_vars

\* Witness: one transaction was answered 'completed' and has no timer, while
\* another waits 60 seconds after a failed request.
C32_Witness ==
  \E id1, id2 \in AllIds :
    /\ polled[id1] = "completed"
    /\ id1 \notin DOMAIN monitorTimers
    /\ realTransactions[id1].status = "completed"
    /\ polled[id2] = "error"
    /\ monitorTimers[id2] = 60000

\* ----------------------------------------------------- waitForUserOp claims
\* C33: waitForUserOp issues at most 30 receipt requests, consecutive ones at least
\* 2 seconds apart; every request that gave no receipt, an erroring one included,
\* counts as one attempt; it returns the transaction hash exactly when the latest
\* request gave a receipt, and it throws the timeout only after 30 unsuccessful
\* attempts.
C33_AtMostThirtyRequests ==
  /\ orequests <= 30
  /\ oprev >= 0 => olast - oprev >= 2000
  /\ orequests = attempts + (IF oanswer = "receipt" THEN 1 ELSE 0)
  /\ oanswer = "receipt" <=> oreturn = [kind |-> "returned", value |-> <<"transactionHash">>]
  /\ oreturn.kind = "threw" =>
       \/ oreturn.value = BundlerUrlNotConfigured /\ orequests = 0
       \/ oreturn.value = UserOpTimeout /\ attempts = 30 /\ orequests = 30
  /\ (opc = "loop" /\ attempts >= 30) => orequests = 30

\* Witness: the timeout was thrown after 30 requests, the last of which threw.
C33_Witness ==
  /\ oreturn = [kind |-> "threw", value |-> UserOpTimeout]
  /\ orequests = 30
  /\ oanswer = "error"

DocumentedFee(amount, protocol) ==
  IF protocol = "OKX Bridge" THEN (amount * 10) \div 10000
  ELSE IF protocol = "LayerZero" THEN (amount * 6) \div 10000
  ELSE (amount * 12) \div 10000

BridgeSteps(route) == SelectSeq(route.steps, LAMBDA st : st.type = "bridge")

\* C35: the bridge fee of a cross-chain route is the documented percentage of the
\* amount for the route's protocol, rounded down; the bridge step carries the
\* amount minus that fee, which is not negative.
C35_FeeIsDocumentedPercentage ==
  (xroute.kind = "returned" /\ xargs.fromChainId # xargs.toChainId) =>
    /\ xroute.bridgeFee = DocumentedFee(xargs.amount, xroute.bridgeProtocol)
    /\ \A i \in DOMAIN xroute.steps :
         xroute.steps[i].type = "bridge" =>
           /\ xroute.steps[i].amount = xargs.amount - xroute.bridgeFee
           /\ xroute.steps[i].amount >= 0

\* C36: a route returned for equal chains is one swap step with bridge fee 0 and
\* protocol 'none'; a route returned for different chains has exactly one bridge
\* step, a source-chain swap before it exactly when the source token is not the
\* bridge token (the source chain's, compared without regard to case), a
\* destination-chain swap after it exactly when the target token is not the bridge
\* token, and no other step.
C36_RouteShape ==
  xroute.kind = "returned" =>
    LET steps == xroute.steps
        bridgeToken == toLowerCase(getBridgeToken(xargs.fromChainId))
        before == toLowerCase(xargs.fromToken) # bridgeToken
        after == toLowerCase(xargs.toToken) # bridgeToken
        b == IF before THEN 2 ELSE 1
    IN IF xargs.fromChainId = xargs.toChainId
         THEN /\ Len(steps) = 1
              /\ steps[1].type = "swap"
              /\ steps[1].chainId = xargs.fromChainId
              /\ xroute.bridgeFee = 0
              /\ xroute.bridgeProtocol = "none"
         ELSE /\ Len(BridgeSteps(xroute)) = 1
              /\ Len(steps) = b + (IF after THEN 1 ELSE 0)
              /\ steps[b].type = "bridge"
              /\ before => (steps[1].type = "swap" /\ steps[1].chainId = xargs.fromChainId)
              /\ after => (steps[b + 1].type = "swap"
                             /\ steps[b + 1].chainId = xargs.toChainId)

\* Witness: from Ethereum to Optimism, the source token being the lower-case
\* spelling of Ethereum's USDC and the target WETH: the bridge step comes first and
\* the destination swap follows.
C36_Witness ==
  /\ xroute.kind = "returned"
  /\ xargs.fromChainId = 1
  /\ xargs.toChainId = 10
  /\ xargs.fromToken = "0xa0b86991c6218b36c1d19d4a2e9eb0ce3606eb48"
  /\ Len(xroute.steps) = 2
  /\ xroute.steps[1].type = "bridge"
  /\ xroute.steps[2].type = "swap"

C38_OneKeyPerAccount ==
  /\ slast.op = "create" =>
       /\ sstore[slast.account] = slast.key
       /\ \A a \in SessionAccounts \ {slast.account} : sstore[a] = slast.before[a]
  /\ slast.op = "revoke" =>
       IF slast.before[slast.account].stored
            /\ slast.before[slast.account].address = slast.key.address
         THEN /\ ~sstore[slast.account].stored
              /\ \A a \in SessionAccounts \ {slast.account} : sstore[a] = slast.before[a]
         ELSE sstore = slast.before
  /\ slast.op = "valid" => (slast.answer <=> slast.now < slast.key.validUntil)

====
